---------------------------- MODULE Spec2Model ----------------------------
(***************************************************************************)
(* A model of xivo/network.py: the interface shutdown orchestrator         *)
(* (force_shutdown, ifplugd_start, the route_* wrappers) and the VLAN name *)
(* classifier / VLAN discovery functions.                                  *)
(*                                                                         *)
(* Strings are sequences of one-character strings, so that prefixes,       *)
(* find() and slices are computed as the code computes them.               *)
(***************************************************************************)
EXTENDS Integers, Sequences, FiniteSets, TLC

VARIABLES
    sysClassNet,   \* os.listdir(SYS_CLASS_NET), in listing order: <<[name, isdir]>>
    procNetVlan,   \* names of the regular files under PROC_NET_VLAN
    vlanConfig,    \* PROC_NET_VLAN/config: [readable, lines]
    pc,            \* position of the calling thread
    op,            \* the operation the caller is in
    phy,           \* force_shutdown's argument
    vlans_phy,     \* force_shutdown's shutdown list
    idx,           \* position of the for loop in vlans_phy (1-based)
    children,      \* child processes spawned by the module that have not exited
    invocations,   \* every external invocation of the current call, in order
    result,        \* how the current call ended
    stdout,        \* what the child of route_list wrote, as read by communicate()
    routes,        \* the list route_list returned
    ifname,        \* argument of the classifier / VLAN discovery functions
    ret,           \* function name -> value returned for the argument
    arg,           \* argument of the address and name helpers
    _valid_netmask, \* the module's frozenset of netmasks, built at import
    uri_create_methods, \* anysql's registry: URI scheme -> what the backend registered
    sqlLast,       \* the last call made to anysql and how it ended
    _callbacks,    \* TokenRenewer._callbacks
    _started,      \* TokenRenewer._started
    _stopped,      \* TokenRenewer._stopped: whether the event is set
    _renew_time,   \* TokenRenewer._renew_time, in seconds
    _thread,       \* TokenRenewer._thread: "none", "created" or "started"
    tpc,           \* where the calling threads and the renewer thread are
    tloc,          \* their locals: callback, position in _callbacks, token_id
    wait_timeout,  \* the timeout of the renewer thread's current wait
    created,       \* how many tokens the auth client has been asked for
    notified,      \* every call of a callback, in order: [callback, token_id]
    tcall,         \* the last call made to the TokenRenewer and how it ended
    stop_returned, \* whether a call of stop() has returned
    cur,           \* an anysql cursor and its connection: the fields they hold
    curcall        \* the call of the cursor in progress, or the last one

fsVars == <<sysClassNet, procNetVlan, vlanConfig>>
routeVars == <<stdout, routes>>
cmdVars == <<pc, op, phy, vlans_phy, idx, children, invocations, result, routeVars>>
vlanVars == <<ifname, ret>>
sqlVars == <<uri_create_methods, sqlLast>>
curVars == <<cur, curcall>>
tokVars == <<_callbacks, _started, _stopped, _renew_time, _thread, tpc, tloc,
            wait_timeout, created, notified, tcall, stop_returned>>
libVars == <<arg, _valid_netmask, sqlVars, tokVars, curVars>>
\* the state of xivo/network.py
netVars == <<fsVars, cmdVars, vlanVars, arg, _valid_netmask>>
vars == <<sysClassNet, procNetVlan, vlanConfig, pc, op, phy, vlans_phy, idx,
          children, invocations, result, stdout, routes, ifname, ret, arg,
          _valid_netmask, uri_create_methods, sqlLast, _callbacks, _started,
          _stopped, _renew_time, _thread, tpc, tloc, wait_timeout, created,
          notified, tcall, stop_returned, cur, curcall>>

---------------------------------------------------------------------------
(* Bounds *)

\* longest /sys/class/net listing drawn for the shutdown operations
MaxListing == 3
\* longest free part of a name handed to the classifier functions
MaxNameLen == 4
\* most lines of /proc/net/vlan/config
MaxConfigLines == 2
\* how far below 0 and above 128 the prefix lengths handed to the netmask
\* conversions go
MaxBeyond == 40
\* longest list handed to sorted_lst_lexdec
MaxSorted == 3

---------------------------------------------------------------------------
(* Strings *)

DIGITS == <<"0", "1", "2", "3", "4", "5", "6", "7", "8", "9">>
Digit == {DIGITS[i] : i \in 1..10}
LETTERS == <<"a", "b", "c", "d", "e", "f", "g", "h", "i", "j", "k", "l", "m",
             "n", "o", "p", "q", "r", "s", "t", "u", "v", "w", "x", "y", "z",
             "A", "B", "C", "D", "E", "F", "G", "H", "I", "J", "K", "L", "M",
             "N", "O", "P", "Q", "R", "S", "T", "U", "V", "W", "X", "Y", "Z">>
\* the characters \w matches
WordChar == Digit \cup {LETTERS[i] : i \in 1..52} \cup {"_"}
\* the characters \s matches
SpaceChar == {" ", "\t", "\n", "\r"}

\* str.startswith
startswith(s, p) == Len(s) >= Len(p) /\ SubSeq(s, 1, Len(p)) = p

\* str.find for a one-character needle: 0-based index of the first
\* occurrence, -1 when there is none
find(s, c) ==
    IF \E i \in 1..Len(s) : s[i] = c
    THEN (CHOOSE i \in 1..Len(s) : s[i] = c /\ \A j \in 1..(i - 1) : s[j] # c) - 1
    ELSE -1

\* s[from:] with a 0-based start
slice_from(s, from) == SubSeq(s, from + 1, Len(s))

\* s[:to] with a 0-based end
slice_to(s, to) == SubSeq(s, 1, to)

\* str.isdigit: non-empty and only decimal digits
isdigit(s) == Len(s) > 0 /\ \A i \in 1..Len(s) : s[i] \in Digit

\* first place at or after i that holds no white space (Len(s) + 1 at the end)
skip_space(s, i) ==
    IF i > Len(s) THEN Len(s) + 1
    ELSE CHOOSE j \in i..(Len(s) + 1) :
            /\ j = Len(s) + 1 \/ s[j] \notin SpaceChar
            /\ \A k \in i..(j - 1) : s[k] \in SpaceChar

\* end (exclusive) of the longest run of characters of S that starts at i
run_end(s, i, S) ==
    IF i > Len(s) THEN Len(s) + 1
    ELSE CHOOSE j \in i..(Len(s) + 1) :
            /\ j = Len(s) + 1 \/ s[j] \notin S
            /\ \A k \in i..(j - 1) : s[k] \in S

\* None, as a group of a match object (no string of characters equals it)
None == <<"None">>

\* the match object of a line that does not match
NoLineMatch == [matched |-> FALSE, g |-> <<None, None, None>>]

DigitVal(c) == (CHOOSE i \in 1..10 : DIGITS[i] = c) - 1

\* int(s) for a string of decimal digits
RECURSIVE to_int(_)
to_int(s) ==
    IF Len(s) = 0 THEN 0
    ELSE 10 * to_int(SubSeq(s, 1, Len(s) - 1)) + DigitVal(s[Len(s)])

\* all sequences over S of length at most n
RECURSIVE SeqsUpTo(_, _)
SeqsUpTo(S, n) ==
    IF n = 0 THEN {<<>>}
    ELSE LET shorter == SeqsUpTo(S, n - 1)
         IN shorter \cup {Append(s, c) : s \in shorter, c \in S}

\* the sequences of SeqsUpTo(S, n) that list no element twice
NoDupSeqs(S, n) ==
    {s \in SeqsUpTo(S, n) : \A i, j \in 1..Len(s) : s[i] = s[j] => i = j}

SP == <<" ">>
BAR == <<"|">>
NL == <<"\n">>
ETH0 == <<"e", "t", "h", "0">>
ETH1 == <<"e", "t", "h", "1">>
ETH00 == ETH0 \o <<"0">>
ETH0_10 == ETH0 \o <<".", "1", "0">>
ETH0_20 == ETH0 \o <<".", "2", "0">>
ETH0_30 == ETH0 \o <<".", "3", "0">>
ETH1_10 == ETH1 \o <<".", "1", "0">>
ETH0_5 == ETH0 \o <<".", "5">>
VLAN7 == <<"v", "l", "a", "n", "7">>
MGMT == <<"m", "g", "m", "t">>

---------------------------------------------------------------------------
(* Integers of any size and byte strings *)

\* A Python integer that may pass 31 bits is the sequence of its digits in
\* some base, most significant first and without leading zeros; zero is <<>>.

\* the digits in base b of  d * m + a, for d given by its digits in base b
RECURSIVE MulAdd(_, _, _, _)
MulAdd(d, b, m, a) ==
    IF Len(d) = 0
    THEN (IF a = 0 THEN <<>> ELSE Append(MulAdd(<<>>, b, m, a \div b), a % b))
    ELSE LET low == d[Len(d)] * m + a
         IN Append(MulAdd(SubSeq(d, 1, Len(d) - 1), b, m, low \div b), low % b)

\* the digits in base to of the number whose digits in base from are d
RECURSIVE Convert(_, _, _)
Convert(d, from, to) ==
    IF Len(d) = 0 THEN <<>>
    ELSE MulAdd(Convert(SubSeq(d, 1, Len(d) - 1), from, to), to, from, d[Len(d)])

\* k digits, all c
Repeat(c, k) == [i \in 1..k |-> c]

\* d without its leading zeros
RECURSIVE Strip(_)
Strip(d) == IF Len(d) > 0 /\ d[1] = 0 THEN Strip(Tail(d)) ELSE d

\* the value of a call: what it returned, or the exception it raised
Value(v) == [raised |-> "none", value |-> v]
Raised(e) == [raised |-> e, value |-> <<>>]

\* n >> k and n << k for n given by its binary digits; ValueError
\* (negative shift count) when k < 0
rshift(n, k) ==
    IF k < 0 THEN Raised("ValueError")
    ELSE Value(IF k >= Len(n) THEN <<>> ELSE SubSeq(n, 1, Len(n) - k))
lshift(n, k) ==
    IF k < 0 THEN Raised("ValueError")
    ELSE Value(IF Len(n) = 0 THEN <<>> ELSE n \o Repeat(0, k))

\* n - 1 for n > 0 given by its binary digits
minus_one(n) ==
    LET last == CHOOSE i \in 1..Len(n) : n[i] = 1 /\ \A j \in (i + 1)..Len(n) : n[j] = 0
    IN Strip([i \in 1..Len(n) |-> IF i < last THEN n[i] ELSE IF i = last THEN 0 ELSE 1])

\* a ^ b for a and b given by their binary digits
xor(a, b) ==
    LET w == IF Len(a) > Len(b) THEN Len(a) ELSE Len(b)
        pa == Repeat(0, w - Len(a)) \o a
        pb == Repeat(0, w - Len(b)) \o b
    IN Strip([i \in 1..w |-> IF pa[i] = pb[i] THEN 0 ELSE 1])

\* 0xFFFFFFFF and 0xFFFF
FFFFFFFF == Repeat(1, 32)
FFFF == Repeat(1, 16)

\* str(n) for n >= 0 given by its binary digits
str_long(n) ==
    IF Len(n) = 0 THEN <<"0">>
    ELSE LET dec == Convert(n, 2, 10) IN [i \in 1..Len(dec) |-> DIGITS[dec[i] + 1]]

\* struct.pack of an unsigned big-endian integer of w bytes, n given by its
\* binary digits: the w bytes, or struct.error when n does not fit
pack_unsigned(n, w) ==
    LET bytes == Convert(n, 2, 256)
    IN IF Len(bytes) > w THEN Raised("struct.error")
       ELSE Value(Repeat(0, w - Len(bytes)) \o bytes)

\* str(n) for an int n >= 0
str(n) == str_long(Convert(<<n>>, n + 1, 2))

\* str.split(sep, maxsplit) for a one-character sep; a maxsplit of -1 is
\* no limit
RECURSIVE split(_, _, _)
split(s, sep, maxsplit) ==
    IF maxsplit = 0 \/ find(s, sep) = -1 THEN <<s>>
    ELSE <<slice_to(s, find(s, sep))>>
            \o split(slice_from(s, find(s, sep) + 1), sep, maxsplit - 1)

\* sep.join(parts)
RECURSIVE join(_, _)
join(sep, parts) ==
    IF Len(parts) = 0 THEN <<>>
    ELSE IF Len(parts) = 1 THEN parts[1]
    ELSE parts[1] \o sep \o join(sep, Tail(parts))

HEXDIGITS == DIGITS \o <<"A", "B", "C", "D", "E", "F">>
HexDigit == {HEXDIGITS[i] : i \in 1..16} \cup {"a", "b", "c", "d", "e", "f"}
HexVal(c) ==
    CASE c = "a" -> 10 [] c = "b" -> 11 [] c = "c" -> 12
      [] c = "d" -> 13 [] c = "e" -> 14 [] c = "f" -> 15
      [] OTHER -> (CHOOSE i \in 1..16 : HEXDIGITS[i] = c) - 1

---------------------------------------------------------------------------
(* socket.inet_aton and the IPv4 helpers *)

\* a reading of the components that takes a leading 0 for a decimal digit
c_number_no_octal(part) ==
    LET n == Len(part)
        vals(from, b) == Convert([i \in 1..(n - from + 1) |-> HexVal(part[from + i - 1])], b, 256)
    IN  IF n >= 3 /\ part[1] = "0" /\ part[2] \in {"x", "X"}
             /\ \A i \in 3..n : part[i] \in HexDigit
        THEN [ok |-> TRUE, bytes |-> vals(3, 16)]
        ELSE IF n >= 1 /\ \A i \in 1..n : part[i] \in Digit
        THEN [ok |-> TRUE, bytes |-> vals(1, 10)]
        ELSE [ok |-> FALSE, bytes |-> <<>>]

\* one component of an address as inet_aton reads it (the C rule): 0x or 0X
\* and hexadecimal digits, 0 and octal digits, or decimal digits; the value
\* is given by its bytes
c_number(part) ==
    LET n == Len(part)
        vals(from, b) == Convert([i \in 1..(n - from + 1) |-> HexVal(part[from + i - 1])], b, 256)
    IN  IF n >= 3 /\ part[1] = "0" /\ part[2] \in {"x", "X"}
             /\ \A i \in 3..n : part[i] \in HexDigit
        THEN [ok |-> TRUE, bytes |-> vals(3, 16)]
        ELSE IF n >= 1 /\ part[1] = "0" /\ \A i \in 1..n : part[i] \in {DIGITS[j] : j \in 1..8}
        THEN [ok |-> TRUE, bytes |-> vals(1, 8)]
        ELSE IF n >= 1 /\ part[1] # "0" /\ \A i \in 1..n : part[i] \in Digit
        THEN [ok |-> TRUE, bytes |-> vals(1, 10)]
        ELSE [ok |-> FALSE, bytes |-> <<>>]

\* socket.inet_aton(s): the four bytes of the address. One to four
\* components; all but the last are one byte each, the last fills the bytes
\* that remain, most significant first. socket.error for anything else.
inet_aton(s) ==
    LET parts == split(s, ".", -1)
        p == Len(parts)
        num(i) == c_number(parts[i])
    IN  IF \/ p > 4
           \/ \E i \in 1..p : ~num(i).ok
           \/ \E i \in 1..(p - 1) : Len(num(i).bytes) > 1
           \/ Len(num(p).bytes) > 5 - p
        THEN Raised("socket.error")
        ELSE Value([i \in 1..(p - 1) |-> IF num(i).bytes = <<>> THEN 0 ELSE num(i).bytes[1]]
                      \o Repeat(0, 5 - p - Len(num(p).bytes)) \o num(p).bytes)

\* parse_ipv4(straddr): struct.unpack("BBBB", ...) gives the four bytes as
\* a tuple of ints
parse_ipv4(straddr) == inet_aton(straddr)

\* format_ipv4(tupaddr)
format_ipv4(tupaddr) == join(<<".">>, [i \in 1..Len(tupaddr) |-> str(tupaddr[i])])

\* normalize_ipv4_address(addr): socket.inet_ntoa writes the four bytes in
\* dotted decimal
normalize_ipv4_address(addr) ==
    IF inet_aton(addr).raised # "none" THEN inet_aton(addr)
    ELSE Value(join(<<".">>, [i \in 1..4 |-> str(inet_aton(addr).value[i])]))

---------------------------------------------------------------------------
(* MAC addresses *)

\* str.upper
upper(s) ==
    [i \in 1..Len(s) |->
        IF \E k \in 1..26 : LETTERS[k] = s[i]
        THEN LETTERS[(CHOOSE k \in 1..26 : LETTERS[k] = s[i]) + 26]
        ELSE s[i]]

\* int(s, 16) for s free of white space: a sign or none, 0x or 0X or none,
\* then hexadecimal digits, at least one; ValueError otherwise
int16(s) ==
    LET signed == Len(s) > 0 /\ s[1] \in {"+", "-"}
        body == IF signed THEN Tail(s) ELSE s
        prefixed == Len(body) >= 2 /\ body[1] = "0" /\ body[2] \in {"x", "X"}
        digits == IF prefixed THEN SubSeq(body, 3, Len(body)) ELSE body
        n == Convert([i \in 1..Len(digits) |-> HexVal(digits[i])], 16, 2^20)
        magnitude == IF n = <<>> THEN 0 ELSE n[1]
    IN  IF Len(digits) = 0 \/ \E i \in 1..Len(digits) : digits[i] \notin HexDigit
        THEN Raised("ValueError")
        ELSE Value(IF signed /\ s[1] = "-" THEN 0 - magnitude ELSE magnitude)

\* '%02X' % n
format_02X(n) ==
    LET magnitude == IF n < 0 THEN 0 - n ELSE n
        hex == Convert(<<magnitude>>, magnitude + 1, 16)
        text == IF hex = <<>> THEN <<"0">> ELSE [i \in 1..Len(hex) |-> HEXDIGITS[hex[i] + 1]]
        signed == IF n < 0 THEN <<"-">> \o text ELSE text
    IN  IF Len(signed) < 2
        THEN (IF n < 0 THEN <<"-">> ELSE <<>>) \o Repeat("0", 2 - Len(signed)) \o text
        ELSE signed

\* is_mac_address_valid(addr)
is_mac_address_valid(addr) ==
    LET elements == split(addr, ":", 6)
    IN  /\ Len(elements) = 6
        /\ \A i \in 1..6 :
              /\ int16(elements[i]).raised = "none"
              /\ 0 <= int16(elements[i]).value
              /\ int16(elements[i]).value < 256

\* normalize_mac_address(macaddr)
normalize_mac_address(macaddr) ==
    LET macaddr_split == split(upper(macaddr), ":", 6)
    IN  IF Len(macaddr_split) # 6 THEN Raised("ValueError")
        ELSE IF \E i \in 1..6 : int16(macaddr_split[i]).raised # "none"
        THEN Raised("ValueError")
        ELSE Value(join(<<":">>, [i \in 1..6 |-> format_02X(int16(macaddr_split[i]).value)]))

---------------------------------------------------------------------------
(* Netmasks *)

\* bitmask_to_mask_ipv4(bits):
\* inet_aton(str((0xFFFFFFFF >> (32 - bits)) << (32 - bits))), unpacked
bitmask_to_mask_ipv4(bits) ==
    LET shifted == rshift(FFFFFFFF, 32 - bits)
    IN  IF shifted.raised # "none" THEN shifted
        ELSE inet_aton(str_long(lshift(shifted.value, 32 - bits).value))

\* bitmask_to_mask_ipv6(bits): eight 16-bit groups, each given as its value
bitmask_to_mask_ipv6(bits) ==
    IF ~(0 <= bits /\ bits <= 128) THEN Raised("ValueError")
    ELSE LET nb == bits \div 16
             rest == bits - 16 * nb
             full == Repeat(65535, nb)
             part == IF rest > 0
                     THEN <<(65535 \div 2^(16 - rest)) * 2^(16 - rest)>>
                     ELSE <<>>
             xlen == Len(full) + Len(part)
         IN Value(full \o part \o Repeat(0, 8 - xlen))

\* a set of netmasks that leaves out the mask of no bit
valid_netmask_without_zero ==
    {pack_unsigned(xor(FFFFFFFF, minus_one(lshift(<<1>>, m).value)), 4).value : m \in 0..31}

\* _valid_netmask: struct.pack(">L", 0xFFFFFFFF ^ ((1 << _m) - 1)),
\* unpacked, for _m in xrange(0, 33)
valid_netmask ==
    {pack_unsigned(xor(FFFFFFFF, minus_one(lshift(<<1>>, m).value)), 4).value : m \in 0..32}

\* plausible_netmask(addr)
plausible_netmask(addr) == addr \in _valid_netmask

---------------------------------------------------------------------------
(* The state the modules are in once imported *)

\* a DBAPI module as register_uri_backend sees it: the attributes it has
\* among apilevel, paramstyle and threadsafety, and their values
Module(attrs, level, style, safety) ==
    [has |-> attrs, apilevel |-> level, paramstyle |-> style, threadsafety |-> safety]
NoModule == Module({}, <<>>, "", 0)

\* no call made to anysql yet
NoSqlCall ==
    [fn |-> "none", scheme |-> <<>>, module |-> NoModule, raised |-> "none",
     before |-> <<>>]

\* the locals of a thread that is in no call
NoLocals == [callback |-> "none", i |-> 0, token_id |-> 0]

\* no call made to the TokenRenewer yet
NoTokenCall == [fn |-> "none", raised |-> "none"]

\* TokenRenewer.__init__: no callback, not started, the event clear, no
\* thread; nothing has been asked of the auth client
Constructed ==
    /\ _callbacks = <<>>
    /\ _started = FALSE
    /\ _stopped = FALSE
    /\ _renew_time = 0
    /\ _thread = "none"
    /\ tpc = [caller |-> "idle", subscriber |-> "idle", renewer |-> "unstarted"]
    /\ tloc = [caller |-> NoLocals, subscriber |-> NoLocals,
               renewer |-> NoLocals]
    /\ wait_timeout = 0
    /\ created = 0
    /\ notified = <<>>
    /\ tcall = NoTokenCall
    /\ stop_returned = FALSE

\* no connection made and no cursor asked for
NoCursor ==
    [methods |-> [module |-> NoModule, c14n_uri_method |-> FALSE],
     dbapi2_conn |-> 0, dbapi2_cursor |-> 0]

\* no call of a cursor made yet
NoCursorCall == [fn |-> "none", at |-> "idle", log |-> <<>>, raised |-> "none"]

\* xivo.network has built _valid_netmask, no backend has registered with
\* xivo.anysql and nothing has connected, and a TokenRenewer has been
\* constructed
Imported ==
    /\ _valid_netmask = valid_netmask
    /\ uri_create_methods = <<>>
    /\ sqlLast = NoSqlCall
    /\ cur = NoCursor
    /\ curcall = NoCursorCall
    /\ Constructed

---------------------------------------------------------------------------
(* The /sys/class/net view *)

\* os.path.isdir(os.path.join(SYS_CLASS_NET, ifname))
is_linux_netdev_if(listing, n) ==
    \E i \in 1..Len(listing) : listing[i].name = n /\ listing[i].isdir

\* [entry for entry in os.listdir(SYS_CLASS_NET) if is_linux_netdev_if(entry)]
get_linux_netdev_list(listing) ==
    LET dirs == SelectSeq(listing, LAMBDA e : is_linux_netdev_if(listing, e.name))
    IN [i \in 1..Len(dirs) |-> dirs[i].name]


---------------------------------------------------------------------------
(* External commands *)

\* the "already stopped" exit status of ifplugd -k
IFPLUGD_ALREADY_STOPPED == 6

\* exit statuses a child can end with: killed by a signal (negative
\* returncode), success, failure, and ifplugd's "already stopped"
ExitStatuses == {-9, 0, 1, IFPLUGD_ALREADY_STOPPED}

\* [IFPLUGD, "-i", phy, "-k"]
IfplugdKill(p) == [bin |-> "ifplugd -k", arg |-> p]
\* [IFDOWN, vlan]
Ifdown(v) == [bin |-> "ifdown", arg |-> v]
\* IFPLUGD_START
IfplugdStart == [bin |-> "invoke-rc.d ifplugd start", arg |-> <<>>]
\* [ROUTE, ...] of the route_* wrappers
RouteOps == {"route_set", "route_unset", "route_flush", "route_flush_cache",
             "route_list"}
RouteCmd(o) == [bin |-> o, arg |-> <<>>]

\* a value that is a str in some cases and an int in others
PyStr(s) == [type |-> "str", s |-> s, n |-> 0]
PyInt(n) == [type |-> "int", s |-> <<>>, n |-> n]

\* the characters of [\d.:]
AddrChar == Digit \cup {".", ":"}
VIA == <<" ", "v", "i", "a", " ">>

\* re.match(r"^([\d.:]+)(?:/(\d+))? via ([\d.:]+).*", line): the groups 1,
\* 2 and 3, group 2 being None when the optional part is not there. Each
\* greedy run ends where a character of another class stands, so the runs
\* are the longest ones.
route_match(line) ==
    LET n == Len(line)
        e1 == run_end(line, 1, AddrChar)
        slash == e1 <= n /\ line[e1] = "/"
        e2 == IF slash THEN run_end(line, e1 + 1, Digit) ELSE e1
        v == e2 + Len(VIA)
        e3 == run_end(line, v, AddrChar)
    IN  IF /\ e1 > 1
           /\ slash => e2 > e1 + 1
           /\ v - 1 <= n /\ SubSeq(line, e2, v - 1) = VIA
           /\ e3 > v
        THEN [matched |-> TRUE,
              g |-> <<SubSeq(line, 1, e1 - 1),
                      IF slash THEN SubSeq(line, e1 + 1, e2 - 1) ELSE None,
                      SubSeq(line, v, e3 - 1)>>]
        ELSE NoLineMatch

\* the list res of route_list, built over output.split('\n'): one
\* [destination, prefix, gateway] for each line that matches, the prefix
\* being group 2 as matched, or 32 when group 2 is None
RECURSIVE route_entries(_)
route_entries(lines) ==
    IF Len(lines) = 0 THEN <<>>
    ELSE LET m == route_match(lines[Len(lines)])
             res == route_entries(SubSeq(lines, 1, Len(lines) - 1))
         IN IF m.matched
            THEN Append(res, <<m.g[1],
                               IF m.g[2] = None THEN PyInt(32) ELSE PyStr(m.g[2]),
                               m.g[3]>>)
            ELSE res

\* route_list(): res for the output the child wrote
route_list(output) == route_entries(split(output, "\n", -1))

\* "10.0.0.0/24 via 192.168.1.1 dev eth0" and other lines of ip route list
ROUTE_10_24 ==
    <<"1", "0", ".", "0", ".", "0", ".", "0", "/", "2", "4">> \o VIA
        \o <<"1", "9", "2", ".", "1", "6", "8", ".", "1", ".", "1", " ", "d", "e", "v", " ">>
        \o ETH0
\* "10.0.0.0 via 192.168.1.1 dev eth0"
ROUTE_10_HOST ==
    <<"1", "0", ".", "0", ".", "0", ".", "0">> \o VIA
        \o <<"1", "9", "2", ".", "1", "6", "8", ".", "1", ".", "1", " ", "d", "e", "v", " ">>
        \o ETH0
\* "default via 10.0.0.1"
ROUTE_DEFAULT ==
    <<"d", "e", "f", "a", "u", "l", "t">> \o VIA \o <<"1", "0", ".", "0", ".", "0", ".", "1">>
\* "10.1.0.0/16 dev eth0": a route with no gateway
ROUTE_ONLINK ==
    <<"1", "0", ".", "1", ".", "0", ".", "0", "/", "1", "6", " ", "d", "e", "v", " ">> \o ETH0
\* " 1::/64 via 1::1": white space first
ROUTE_INDENTED ==
    <<" ", "1", ":", ":", "/", "6", "4">> \o VIA \o <<"1", ":", ":", "1">>
\* "1::/64 via 1::1"
ROUTE_V6 == <<"1", ":", ":", "/", "6", "4">> \o VIA \o <<"1", ":", ":", "1">>

\* what the child of route_list writes in the model
RouteOutputs ==
    {<<>>,
     ROUTE_10_24 \o NL,
     ROUTE_10_HOST \o NL,
     ROUTE_DEFAULT \o NL \o ROUTE_10_24 \o NL \o ROUTE_ONLINK \o NL \o ROUTE_10_HOST \o NL,
     ROUTE_10_HOST \o NL \o ROUTE_10_24 \o NL,
     ROUTE_INDENTED \o NL \o ROUTE_V6 \o NL,
     ROUTE_10_24 \o NL \o ROUTE_10_24}

\* one entry of the invocation log
Attempt(c, st, code) == [cmd |-> c, state |-> st, status |-> code]

\* the last entry of the log, completed with how the child ended
Exited(log, code) ==
    [log EXCEPT ![Len(log)] = Attempt(log[Len(log)].cmd, "exited", code)]

\* Popen(): the child is running beside the caller
spawn_child(ch, c) == Append(ch, c)

\* a call that returns while its child is still running
wait_child_nowait(ch) == ch

\* subprocess.call() / Popen.communicate(): the caller is blocked until the
\* child it has just spawned has exited, and the child is reaped
wait_child(ch) == SubSeq(ch, 1, Len(ch) - 1)

\* a kill check that takes only status 0 for a success
kill_failed_strict(st) == st # 0

\* if status: if status == 6: warning, else: raise
kill_failed(st) == st # 0 /\ st # IFPLUGD_ALREADY_STOPPED

\* an ifdown check that takes the "already stopped" status for a success too
ifdown_failed_lenient(st) == st # 0 /\ st # IFPLUGD_ALREADY_STOPPED

\* if status: raise
ifdown_failed(st) == st # 0

\* a child filter that forgets the "." after phy
is_vlan_of_noseparator(v, p) == startswith(v, p)

\* vlan.startswith(phy + ".")
is_vlan_of(v, p) == startswith(v, p \o <<".">>)

\* a shutdown list with the physical interface first
shutdown_list_phy_first(listing, p) ==
    <<p>> \o SelectSeq(get_linux_netdev_list(listing), LAMBDA v : is_vlan_of(v, p))

\* vlans_phy = [vlan for vlan in get_linux_netdev_list() if ...]; vlans_phy.append(phy)
shutdown_list(listing, p) ==
    Append(SelectSeq(get_linux_netdev_list(listing), LAMBDA v : is_vlan_of(v, p)), p)

---------------------------------------------------------------------------
(* force_shutdown(phy) *)

PhyArgs == {ETH0, ETH1}

Call_force_shutdown(p) ==
    /\ pc = "idle"
    /\ pc' = "kill"
    /\ op' = "force_shutdown"
    /\ phy' = p
    /\ UNCHANGED <<vlans_phy, idx, children, invocations, result>>
    /\ UNCHANGED <<fsVars, vlanVars, routeVars, libVars>>

\* subprocess.call([IFPLUGD, "-i", phy, "-k"]) raises OSError
KillSpawnFails ==
    /\ pc = "kill"
    /\ invocations' = Append(invocations, Attempt(IfplugdKill(phy), "OSError", 0))
    /\ result' = "NetworkOpError"
    /\ pc' = "done"
    /\ UNCHANGED <<op, phy, vlans_phy, idx, children>>
    /\ UNCHANGED <<fsVars, vlanVars, routeVars, libVars>>

\* subprocess.call([IFPLUGD, "-i", phy, "-k"]) has spawned its child
KillSpawn ==
    /\ pc = "kill"
    /\ children' = spawn_child(children, IfplugdKill(phy))
    /\ invocations' = Append(invocations, Attempt(IfplugdKill(phy), "running", 0))
    /\ pc' = "kill_wait"
    /\ UNCHANGED <<op, phy, vlans_phy, idx, result>>
    /\ UNCHANGED <<fsVars, vlanVars, routeVars, libVars>>

\* the ifplugd child exits with st; the status check
KillReturn(st) ==
    /\ pc = "kill_wait"
    /\ children' = wait_child(children)
    /\ invocations' = Exited(invocations, st)
    /\ IF kill_failed(st)
       THEN result' = "NetworkOpError" /\ pc' = "done"
       ELSE result' = result /\ pc' = "list"
    /\ UNCHANGED <<op, phy, vlans_phy, idx>>
    /\ UNCHANGED <<fsVars, vlanVars, routeVars, libVars>>

\* the shutdown list is computed from the listing read at this point
ListVlans ==
    /\ pc = "list"
    /\ vlans_phy' = shutdown_list(sysClassNet, phy)
    /\ idx' = 1
    /\ pc' = "down"
    /\ UNCHANGED <<op, phy, children, invocations, result>>
    /\ UNCHANGED <<fsVars, vlanVars, routeVars, libVars>>

\* subprocess.call([IFDOWN, vlan]) raises OSError
DownSpawnFails ==
    /\ pc = "down"
    /\ idx <= Len(vlans_phy)
    /\ invocations' = Append(invocations, Attempt(Ifdown(vlans_phy[idx]), "OSError", 0))
    /\ result' = "NetworkOpError"
    /\ pc' = "done"
    /\ UNCHANGED <<op, phy, vlans_phy, idx, children>>
    /\ UNCHANGED <<fsVars, vlanVars, routeVars, libVars>>

\* subprocess.call([IFDOWN, vlan]) has spawned its child
DownSpawn ==
    /\ pc = "down"
    /\ idx <= Len(vlans_phy)
    /\ children' = spawn_child(children, Ifdown(vlans_phy[idx]))
    /\ invocations' = Append(invocations, Attempt(Ifdown(vlans_phy[idx]), "running", 0))
    /\ pc' = "down_wait"
    /\ UNCHANGED <<op, phy, vlans_phy, idx, result>>
    /\ UNCHANGED <<fsVars, vlanVars, routeVars, libVars>>

\* the ifdown child exits with st; the status check and the next iteration
DownReturn(st) ==
    /\ pc = "down_wait"
    /\ children' = wait_child(children)
    /\ invocations' = Exited(invocations, st)
    /\ IF ifdown_failed(st)
       THEN result' = "NetworkOpError" /\ pc' = "done" /\ idx' = idx
       ELSE result' = result /\ pc' = "down" /\ idx' = idx + 1
    /\ UNCHANGED <<op, phy, vlans_phy>>
    /\ UNCHANGED <<fsVars, vlanVars, routeVars, libVars>>

\* the for loop is exhausted: force_shutdown returns None
ShutdownReturns ==
    /\ pc = "down"
    /\ idx > Len(vlans_phy)
    /\ result' = "returned"
    /\ pc' = "done"
    /\ UNCHANGED <<op, phy, vlans_phy, idx, children, invocations>>
    /\ UNCHANGED <<fsVars, vlanVars, routeVars, libVars>>

---------------------------------------------------------------------------
(* ifplugd_start() *)

Call_ifplugd_start ==
    /\ pc = "idle"
    /\ pc' = "start"
    /\ op' = "ifplugd_start"
    /\ UNCHANGED <<phy, vlans_phy, idx, children, invocations, result>>
    /\ UNCHANGED <<fsVars, vlanVars, routeVars, libVars>>

StartSpawnFails ==
    /\ pc = "start"
    /\ invocations' = Append(invocations, Attempt(IfplugdStart, "OSError", 0))
    /\ result' = "NetworkOpError"
    /\ pc' = "done"
    /\ UNCHANGED <<op, phy, vlans_phy, idx, children>>
    /\ UNCHANGED <<fsVars, vlanVars, routeVars, libVars>>

StartSpawn ==
    /\ pc = "start"
    /\ children' = spawn_child(children, IfplugdStart)
    /\ invocations' = Append(invocations, Attempt(IfplugdStart, "running", 0))
    /\ pc' = "start_wait"
    /\ UNCHANGED <<op, phy, vlans_phy, idx, result>>
    /\ UNCHANGED <<fsVars, vlanVars, routeVars, libVars>>

StartReturn(st) ==
    /\ pc = "start_wait"
    /\ children' = wait_child(children)
    /\ invocations' = Exited(invocations, st)
    /\ result' = IF st # 0 THEN "NetworkOpError" ELSE "returned"
    /\ pc' = "done"
    /\ UNCHANGED <<op, phy, vlans_phy, idx>>
    /\ UNCHANGED <<fsVars, vlanVars, routeVars, libVars>>

---------------------------------------------------------------------------
(* route_set, route_unset, route_flush, route_flush_cache, route_list *)

Call_route(o) ==
    /\ pc = "idle"
    /\ pc' = "exec"
    /\ op' = o
    /\ UNCHANGED <<phy, vlans_phy, idx, children, invocations, result>>
    /\ UNCHANGED <<fsVars, vlanVars, routeVars, libVars>>

\* subprocess.Popen(cmd, ...) raises OSError, which _execute_cmd lets through
ExecSpawnFails ==
    /\ pc = "exec"
    /\ invocations' = Append(invocations, Attempt(RouteCmd(op), "OSError", 0))
    /\ result' = "OSError"
    /\ pc' = "done"
    /\ UNCHANGED <<op, phy, vlans_phy, idx, children>>
    /\ UNCHANGED <<fsVars, vlanVars, routeVars, libVars>>

ExecSpawn ==
    /\ pc = "exec"
    /\ children' = spawn_child(children, RouteCmd(op))
    /\ invocations' = Append(invocations, Attempt(RouteCmd(op), "running", 0))
    /\ pc' = "exec_wait"
    /\ UNCHANGED <<op, phy, vlans_phy, idx, result>>
    /\ UNCHANGED <<fsVars, vlanVars, routeVars, libVars>>

\* p.communicate() returns once the child has exited; (returncode, stdout)
\* is returned whatever the returncode is. Only route_list looks at stdout
\* (and not at the returncode), so the output is drawn for route_list only.
ExecReturn(st) ==
    /\ pc = "exec_wait"
    /\ children' = wait_child(children)
    /\ invocations' = Exited(invocations, st)
    /\ \E out \in (IF op = "route_list" THEN RouteOutputs ELSE {<<>>}) :
          /\ stdout' = out
          /\ routes' = IF op = "route_list" THEN route_list(out) ELSE <<>>
    /\ result' = "returned"
    /\ pc' = "done"
    /\ UNCHANGED <<op, phy, vlans_phy, idx>>
    /\ UNCHANGED <<fsVars, vlanVars, libVars>>

\* the call is over (returned or raised): the caller is free to make another
CallOver ==
    /\ pc = "done"
    /\ pc' = "idle"
    /\ op' = "none"
    /\ phy' = <<>>
    /\ vlans_phy' = <<>>
    /\ idx' = 0
    /\ invocations' = <<>>
    /\ result' = "none"
    /\ stdout' = <<>>
    /\ routes' = <<>>
    /\ UNCHANGED children
    /\ UNCHANGED <<fsVars, vlanVars, libVars>>

---------------------------------------------------------------------------
(* The specification of the external-command operations *)

\* what os.listdir(SYS_CLASS_NET) can hold for the shutdown operations;
\* eth0.30 is an entry that is not a directory
ShutdownEntries ==
    {[name |-> n, isdir |-> TRUE] : n \in {ETH0, ETH0_10, ETH0_20, ETH00, ETH1_10}}
        \cup {[name |-> ETH0_30, isdir |-> FALSE]}

IdleCmd ==
    /\ pc = "idle"
    /\ op = "none"
    /\ phy = <<>>
    /\ vlans_phy = <<>>
    /\ idx = 0
    /\ children = <<>>
    /\ invocations = <<>>
    /\ result = "none"
    /\ stdout = <<>>
    /\ routes = <<>>

NoVlanCall ==
    /\ ifname = <<>>
    /\ ret = <<>>

NoLibCall ==
    /\ arg = <<>>
    /\ Imported

Init ==
    /\ sysClassNet \in NoDupSeqs(ShutdownEntries, MaxListing)
    /\ procNetVlan = {}
    /\ vlanConfig = [readable |-> FALSE, lines |-> <<>>]
    /\ IdleCmd
    /\ NoVlanCall
    /\ NoLibCall

Next ==
    \/ \E p \in PhyArgs : Call_force_shutdown(p)
    \/ KillSpawnFails
    \/ KillSpawn
    \/ \E st \in ExitStatuses : KillReturn(st)
    \/ ListVlans
    \/ DownSpawnFails
    \/ DownSpawn
    \/ \E st \in ExitStatuses : DownReturn(st)
    \/ ShutdownReturns
    \/ Call_ifplugd_start
    \/ StartSpawnFails
    \/ StartSpawn
    \/ \E st \in ExitStatuses : StartReturn(st)
    \/ \E o \in RouteOps : Call_route(o)
    \/ ExecSpawnFails
    \/ ExecSpawn
    \/ \E st \in ExitStatuses : ExecReturn(st)
    \/ CallOver

Spec == Init /\ [][Next]_vars


---------------------------------------------------------------------------
(* Python values *)

\* False, as returned in place of a dict
PyFalse == [type |-> "False", keys |-> {}, id |-> 0, raw |-> <<>>]

\* a dict with some of the keys 'vlan-id' and 'vlan-raw-device'
EmptyDict == [type |-> "dict", keys |-> {}, id |-> 0, raw |-> <<>>]
IdDict(n) == [type |-> "dict", keys |-> {"vlan-id"}, id |-> n, raw |-> <<>>]
IdRawDict(n, dev) ==
    [type |-> "dict", keys |-> {"vlan-id", "vlan-raw-device"}, id |-> n, raw |-> dev]

\* the truth value of a returned value: False and {} are false
truthy(v) == v.type = "dict" /\ v.keys # {}

---------------------------------------------------------------------------
(* The name classifier *)

VLAN_PREFIX == <<"v", "l", "a", "n">>

\* a test that also takes a "." at index 0
is_vlan_if_any_pos(name) ==
    IF startswith(name, VLAN_PREFIX)
    THEN isdigit(slice_from(name, 4))
    ELSE LET pos == find(name, ".")
         IN IF pos >= 0 THEN isdigit(slice_from(name, pos + 1)) ELSE FALSE

\* is_vlan_if(ifname)
is_vlan_if(name) ==
    IF startswith(name, VLAN_PREFIX)
    THEN isdigit(slice_from(name, 4))
    ELSE LET pos == find(name, ".")
         IN IF pos > 0 THEN isdigit(slice_from(name, pos + 1)) ELSE FALSE

\* is_phy_if(ifname): '.' not in ifname
is_phy_if(name) == \A i \in 1..Len(name) : name[i] # "."

NoMatch == [matched |-> FALSE, g |-> <<None, None, None, None>>]
Groups(g1, g2, g3, g4) == [matched |-> TRUE, g |-> <<g1, g2, g3, g4>>]

\* VLAN_NAME_SPLITTER: ^(?:vlan(\d+)|(\W+)\.(\d+)|(?!vlan)[^\.]*\.(\d+))$
\* The alternatives are tried in order.  In the second and third the digits
\* run to the end of the name, so the "\." is the last "." of the name and
\* the groups are determined by its place.
VLAN_NAME_SPLITTER(name) ==
    LET n == Len(name)
        \* places i of a "." followed by digits up to the end
        dots == {i \in 1..n : name[i] = "." /\ isdigit(SubSeq(name, i + 1, n))}
        \* (\W+)\.(\d+): one or more non-word characters before the "."
        alt2 == {i \in dots : i > 1 /\ \A k \in 1..(i - 1) : name[k] \notin WordChar}
        \* (?!vlan)[^\.]*\.(\d+): no "." before the ".", and no "vlan" in front
        alt3 == {i \in dots : /\ ~startswith(name, VLAN_PREFIX)
                               /\ \A k \in 1..(i - 1) : name[k] # "."}
    IN  IF startswith(name, VLAN_PREFIX) /\ isdigit(slice_from(name, 4))
        THEN Groups(slice_from(name, 4), None, None, None)
        ELSE IF alt2 # {}
        THEN LET i == CHOOSE i \in alt2 : TRUE
             IN Groups(None, SubSeq(name, 1, i - 1), SubSeq(name, i + 1, n), None)
        ELSE IF alt3 # {}
        THEN LET i == CHOOSE i \in alt3 : TRUE
             IN Groups(None, None, None, SubSeq(name, i + 1, n))
        ELSE NoMatch

\* get_vlan_info_from_ifname(ifname)
get_vlan_info_from_ifname(name) ==
    LET splitted == VLAN_NAME_SPLITTER(name)
    IN  IF ~splitted.matched THEN EmptyDict
        ELSE IF splitted.g[1] # None THEN IdDict(to_int(splitted.g[1]))
        ELSE IF splitted.g[2] # None THEN IdRawDict(to_int(splitted.g[3]), splitted.g[2])
        ELSE IdDict(to_int(splitted.g[4]))

---------------------------------------------------------------------------
(* VLAN discovery *)

\* VLAN_CONFIG_PARSER: ^\s*([^\s]+)\s*\|\s*(\d+)\s*\|\s*([^\s]+)\s*$
\* Group 1 starts at the first character that is no white space and ends at
\* e1 - 1; the rest of the match is determined by e1, and the greedy [^\s]+
\* takes the largest e1 that lets the rest match.
VLAN_CONFIG_PARSER(line) ==
    LET n == Len(line)
        at(i) == IF i >= 1 /\ i <= n THEN line[i] ELSE "$"
        s1 == skip_space(line, 1)
        Rest(e1) ==
            LET bar1 == skip_space(line, e1)
                s2 == skip_space(line, bar1 + 1)
                e2 == run_end(line, s2, Digit)
                bar2 == skip_space(line, e2)
                s3 == skip_space(line, bar2 + 1)
                e3 == IF s3 <= n THEN CHOOSE j \in s3..(n + 1) :
                                        /\ j = n + 1 \/ line[j] \in SpaceChar
                                        /\ \A k \in s3..(j - 1) : line[k] \notin SpaceChar
                      ELSE s3
            IN  [ok |-> /\ at(bar1) = "|"
                        /\ s2 <= n /\ e2 > s2
                        /\ at(bar2) = "|"
                        /\ s3 <= n /\ e3 > s3
                        /\ skip_space(line, e3) = n + 1,
                 g2 |-> IF s2 <= n THEN SubSeq(line, s2, e2 - 1) ELSE <<>>,
                 g3 |-> IF s3 <= n THEN SubSeq(line, s3, e3 - 1) ELSE <<>>]
        ends == {e1 \in (s1 + 1)..(n + 1) :
                    /\ \A k \in s1..(e1 - 1) : line[k] \notin SpaceChar
                    /\ Rest(e1).ok}
    IN  IF ends = {} THEN NoLineMatch
        ELSE LET e1 == CHOOSE e \in ends : \A f \in ends : f <= e
             IN [matched |-> TRUE,
                 g |-> <<SubSeq(line, s1, e1 - 1), Rest(e1).g2, Rest(e1).g3>>]

\* a reader that gives up at the first line that does not parse
RECURSIVE read_vlan_config_until_bad(_)
read_vlan_config_until_bad(lines) ==
    IF Len(lines) = 0 THEN <<>>
    ELSE LET parsed == VLAN_CONFIG_PARSER(lines[1])
             r == read_vlan_config_until_bad(SubSeq(lines, 2, Len(lines)))
         IN IF ~parsed.matched THEN <<>>
            ELSE [k \in DOMAIN r \cup {parsed.g[1]} |->
                     IF k \in DOMAIN r THEN r[k]
                     ELSE IdRawDict(to_int(parsed.g[2]), parsed.g[3])]

\* the dict r built by the loop over config.readlines(): a later line for
\* a name replaces an earlier one
RECURSIVE read_vlan_config(_)
read_vlan_config(lines) ==
    IF Len(lines) = 0 THEN <<>>
    ELSE LET r == read_vlan_config(SubSeq(lines, 1, Len(lines) - 1))
             parsed == VLAN_CONFIG_PARSER(lines[Len(lines)])
         IN IF parsed.matched
            THEN [k \in DOMAIN r \cup {parsed.g[1]} |->
                     IF k = parsed.g[1]
                     THEN IdRawDict(to_int(parsed.g[2]), parsed.g[3])
                     ELSE r[k]]
            ELSE r

\* get_linux_vlan_config(ifname) for an ifname that is not None
get_linux_vlan_config(cfg, name) ==
    IF ~cfg.readable THEN PyFalse
    ELSE LET r == read_vlan_config(cfg.lines)
         IN IF name \in DOMAIN r THEN r[name] ELSE PyFalse

\* False in place of the whole dict, and the whole dict r
NoConfig == [type |-> "False", entries |-> <<>>]
ConfigDict(r) == [type |-> "dict", entries |-> r]

\* get_linux_vlan_config() with ifname left to None: the whole dict
get_linux_vlan_config_all(cfg) ==
    IF ~cfg.readable THEN NoConfig
    ELSE ConfigDict(read_vlan_config(cfg.lines))

\* a test that skips the /sys/class/net check
is_linux_vlan_if_file_only(listing, proc, name) == name \in proc

\* is_linux_vlan_if(ifname)
is_linux_vlan_if(listing, proc, name) ==
    name \in proc /\ is_linux_netdev_if(listing, name)

\* a lookup that prefers the record derived from the name
get_vlan_info_name_first(listing, proc, cfg, name) ==
    IF ~is_linux_vlan_if(listing, proc, name) THEN PyFalse
    ELSE IF truthy(get_vlan_info_from_ifname(name)) THEN get_vlan_info_from_ifname(name)
    ELSE get_linux_vlan_config(cfg, name)

\* get_vlan_info(ifname)
get_vlan_info(listing, proc, cfg, name) ==
    IF ~is_linux_vlan_if(listing, proc, name) THEN PyFalse
    ELSE LET config == get_linux_vlan_config(cfg, name)
         IN IF truthy(config) THEN config ELSE get_vlan_info_from_ifname(name)

---------------------------------------------------------------------------
(* Calls of the classifier and VLAN discovery functions on ifname *)

Returned(f, v) == [k \in DOMAIN ret \cup {f} |-> IF k = f THEN v ELSE ret[k]]

Call_is_vlan_if ==
    /\ "is_vlan_if" \notin DOMAIN ret
    /\ ret' = Returned("is_vlan_if", is_vlan_if(ifname))
    /\ UNCHANGED <<ifname, fsVars, cmdVars, libVars>>

Call_is_phy_if ==
    /\ "is_phy_if" \notin DOMAIN ret
    /\ ret' = Returned("is_phy_if", is_phy_if(ifname))
    /\ UNCHANGED <<ifname, fsVars, cmdVars, libVars>>

Call_get_vlan_info_from_ifname ==
    /\ "get_vlan_info_from_ifname" \notin DOMAIN ret
    /\ ret' = Returned("get_vlan_info_from_ifname", get_vlan_info_from_ifname(ifname))
    /\ UNCHANGED <<ifname, fsVars, cmdVars, libVars>>

Call_get_vlan_info ==
    /\ "get_vlan_info" \notin DOMAIN ret
    /\ ret' = Returned("get_vlan_info",
                       get_vlan_info(sysClassNet, procNetVlan, vlanConfig, ifname))
    /\ UNCHANGED <<ifname, fsVars, cmdVars, libVars>>

\* names: nothing, "vlan" or "eth0", followed by up to MaxNameLen characters
NameChars == {"x", "7", ".", "-"}
Names ==
    {pre \o s : pre \in {<<>>, VLAN_PREFIX, ETH0}, s \in SeqsUpTo(NameChars, MaxNameLen)}

\* the names the file systems of the model know
VlanNames == {ETH0_5, VLAN7, MGMT, ETH0}

\* "VLAN Dev name | VLAN ID": the heading of /proc/net/vlan/config
LINE_HEADING ==
    <<"V", "L", "A", "N", " ", "D", "e", "v", " ", "n", "a", "m", "e", "\t", " ",
      "|", " ", "V", "L", "A", "N", " ", "I", "D", "\n">>
\* "eth0.5         | 7  | eth1"
LINE_ETH0_5_ON_ETH1 ==
    ETH0_5 \o SP \o SP \o BAR \o SP \o <<"7">> \o SP \o SP \o BAR \o SP \o ETH1 \o NL
\* "eth0.5|5|eth0"
LINE_ETH0_5_ON_ETH0 == ETH0_5 \o BAR \o <<"5">> \o BAR \o ETH0 \o NL
\* "mgmt | 012 | eth0"
LINE_MGMT == MGMT \o SP \o BAR \o SP \o <<"0", "1", "2">> \o SP \o BAR \o SP \o ETH0 \o NL
\* "vlan7 | 7 |": no raw device
LINE_TRUNCATED == VLAN7 \o SP \o BAR \o SP \o <<"7">> \o SP \o BAR \o NL
ConfigLines == {LINE_HEADING, LINE_ETH0_5_ON_ETH1, LINE_ETH0_5_ON_ETH0, LINE_MGMT,
                LINE_TRUNCATED}

\* the file systems: /sys/class/net with at most one entry, which may be a
\* directory or not; /proc/net/vlan with no file, the file of ifname or the
\* files of all names; the config file unreadable or holding some lines
VlanFileSystems ==
    /\ sysClassNet \in {<<>>} \cup {<<[name |-> n, isdir |-> d]>> : n \in VlanNames, d \in BOOLEAN}
    /\ procNetVlan \in {{}, {ifname}, VlanNames}
    /\ vlanConfig \in
          {[readable |-> FALSE, lines |-> <<>>]}
              \cup {[readable |-> TRUE, lines |-> l] : l \in SeqsUpTo(ConfigLines, MaxConfigLines)}

NoFileSystem ==
    /\ sysClassNet = <<>>
    /\ procNetVlan = {}
    /\ vlanConfig = [readable |-> FALSE, lines |-> <<>>]

InitVlan ==
    /\ IdleCmd
    /\ NoLibCall
    /\ ret = <<>>
    /\ \/ ifname \in Names /\ NoFileSystem
       \/ ifname \in VlanNames /\ VlanFileSystems

NextVlan ==
    \/ Call_is_vlan_if
    \/ Call_is_phy_if
    \/ Call_get_vlan_info_from_ifname
    \/ Call_get_vlan_info

SpecVlan == InitVlan /\ [][NextVlan]_vars

---------------------------------------------------------------------------
(* Calls of get_linux_vlan_config on config files of any content *)

\* get_linux_vlan_config(): ifname is None, the whole dict is returned
Call_get_linux_vlan_config ==
    /\ ifname = None
    /\ "get_linux_vlan_config" \notin DOMAIN ret
    /\ ret' = Returned("get_linux_vlan_config", get_linux_vlan_config_all(vlanConfig))
    /\ UNCHANGED <<ifname, fsVars, cmdVars, libVars>>

\* get_linux_vlan_config(ifname): the entry of ifname, or False
Call_get_linux_vlan_config_ifname ==
    /\ ifname # None
    /\ "get_linux_vlan_config" \notin DOMAIN ret
    /\ ret' = Returned("get_linux_vlan_config", get_linux_vlan_config(vlanConfig, ifname))
    /\ UNCHANGED <<ifname, fsVars, cmdVars, libVars>>

\* "  eth1.10\t| 10 | eth1": white space before the name
LINE_INDENTED ==
    SP \o SP \o ETH1_10 \o <<"\t">> \o BAR \o SP \o <<"1", "0">> \o SP \o BAR \o SP \o ETH1 \o NL
\* "Name-Type: RAW": the second heading line
LINE_NAME_TYPE ==
    <<"N", "a", "m", "e", "-", "T", "y", "p", "e", ":", " ", "R", "A", "W", "\n">>
\* "eth0.5 | x5 | eth0": the VLAN id is no number
LINE_BAD_ID == ETH0_5 \o SP \o BAR \o SP \o <<"x", "5">> \o SP \o BAR \o SP \o ETH0 \o NL
\* "mgmt | 12 | eth0 eth1": two raw devices
LINE_TWO_RAW ==
    MGMT \o SP \o BAR \o SP \o <<"1", "2">> \o SP \o BAR \o SP \o ETH0 \o SP \o ETH1 \o NL
AllConfigLines ==
    ConfigLines \cup {LINE_INDENTED, LINE_NAME_TYPE, LINE_BAD_ID, LINE_TWO_RAW, NL}

InitConfig ==
    /\ IdleCmd
    /\ NoLibCall
    /\ ret = <<>>
    /\ ifname \in {None, ETH0_5}
    /\ sysClassNet = <<>>
    /\ procNetVlan = {}
    /\ vlanConfig \in
          {[readable |-> FALSE, lines |-> <<>>]}
              \cup {[readable |-> TRUE, lines |-> l] :
                        l \in SeqsUpTo(AllConfigLines, MaxConfigLines)}

NextConfig ==
    \/ Call_get_linux_vlan_config
    \/ Call_get_linux_vlan_config_ifname

SpecConfig == InitConfig /\ [][NextConfig]_vars

---------------------------------------------------------------------------
(* Calls of the netmask functions *)

Call_plausible_netmask ==
    /\ "plausible_netmask" \notin DOMAIN ret
    /\ ret' = Returned("plausible_netmask", plausible_netmask(arg))
    /\ UNCHANGED <<ifname, fsVars, cmdVars, libVars>>

\* the bytes netmasks are made of, and 64, a byte of no netmask
ByteSamples == {0, 64, 128, 192, 224, 240, 248, 252, 254, 255}

NoFileSystemCall ==
    /\ IdleCmd
    /\ NoFileSystem
    /\ ifname = <<>>
    /\ ret = <<>>

InitNetmask ==
    /\ NoFileSystemCall
    /\ Imported
    /\ arg \in {<<a, b, c, d>> : a, b, c, d \in ByteSamples}

NextNetmask == Call_plausible_netmask

SpecNetmask == InitNetmask /\ [][NextNetmask]_vars

Call_bitmask_to_mask_ipv4 ==
    /\ "bitmask_to_mask_ipv4" \notin DOMAIN ret
    /\ ret' = Returned("bitmask_to_mask_ipv4", bitmask_to_mask_ipv4(arg))
    /\ UNCHANGED <<ifname, fsVars, cmdVars, libVars>>

Call_bitmask_to_mask_ipv6 ==
    /\ "bitmask_to_mask_ipv6" \notin DOMAIN ret
    /\ ret' = Returned("bitmask_to_mask_ipv6", bitmask_to_mask_ipv6(arg))
    /\ UNCHANGED <<ifname, fsVars, cmdVars, libVars>>

InitBitmask ==
    /\ NoFileSystemCall
    /\ Imported
    /\ arg \in (0 - MaxBeyond)..(128 + MaxBeyond)

NextBitmask ==
    \/ Call_bitmask_to_mask_ipv4
    \/ Call_bitmask_to_mask_ipv6

SpecBitmask == InitBitmask /\ [][NextBitmask]_vars

---------------------------------------------------------------------------
(* Calls of the MAC address functions *)

Call_is_mac_address_valid ==
    /\ "is_mac_address_valid" \notin DOMAIN ret
    /\ ret' = Returned("is_mac_address_valid", is_mac_address_valid(arg))
    /\ UNCHANGED <<ifname, fsVars, cmdVars, libVars>>

Call_normalize_mac_address ==
    /\ "normalize_mac_address" \notin DOMAIN ret
    /\ ret' = Returned("normalize_mac_address", normalize_mac_address(arg))
    /\ UNCHANGED <<ifname, fsVars, cmdVars, libVars>>

\* what stands between two ':' of the addresses drawn
OctetSamples ==
    {<<"1", "a">>, <<"b">>, <<"0", "C">>, <<"F", "F">>, <<"0">>, <<>>, <<"g">>,
     <<"1", "0", "0">>, <<"-", "1">>, <<"0", "x", "1", "f">>}

\* addresses of five, six and seven elements: x:b:y:d:e, x:b:y:d:e:z and
\* x:b:y:d:e:z:0 for x, y, z of OctetSamples
MacInputs ==
    {join(<<":">>, <<x, <<"b">>, y, <<"d">>, <<"e">>>> \o rest) :
        x \in OctetSamples, y \in {<<"c">>, <<"1", "0", "0">>},
        rest \in {<<>>} \cup {<<z>> : z \in OctetSamples}
                        \cup {<<z, <<"0">>>> : z \in OctetSamples}}

InitMac ==
    /\ NoFileSystemCall
    /\ Imported
    /\ arg \in MacInputs

NextMac ==
    \/ Call_is_mac_address_valid
    \/ Call_normalize_mac_address

SpecMac == InitMac /\ [][NextMac]_vars

---------------------------------------------------------------------------
(* Calls of the IPv4 address functions *)

Call_parse_ipv4 ==
    /\ "parse_ipv4" \notin DOMAIN ret
    /\ ret' = Returned("parse_ipv4", parse_ipv4(arg))
    /\ UNCHANGED <<ifname, fsVars, cmdVars, libVars>>

\* format_ipv4 on the tuple parse_ipv4 returned
Call_format_ipv4 ==
    /\ "parse_ipv4" \in DOMAIN ret
    /\ ret["parse_ipv4"].raised = "none"
    /\ "format_ipv4" \notin DOMAIN ret
    /\ ret' = Returned("format_ipv4", format_ipv4(ret["parse_ipv4"].value))
    /\ UNCHANGED <<ifname, fsVars, cmdVars, libVars>>

Call_normalize_ipv4_address ==
    /\ "normalize_ipv4_address" \notin DOMAIN ret
    /\ ret' = Returned("normalize_ipv4_address", normalize_ipv4_address(arg))
    /\ UNCHANGED <<ifname, fsVars, cmdVars, libVars>>

\* the components the addresses drawn are made of: the first, the second
\* and the third of an address that has one, and the last
FirstSamples == {<<"1">>, <<"1", "9", "2">>, <<"0", "x", "A">>, <<"2", "5", "6">>}
SecondSamples == {<<"2">>, <<"1", "6", "8">>, <<"0", "1", "2">>, <<"0", "8">>}
ThirdSamples == {<<"3">>, <<"0">>, <<"0", "X", "1", "f">>}
LastSamples ==
    {<<"0">>, <<"1">>, <<"4", "2">>, <<"2", "5", "5">>, <<"0", "7", "7">>,
     <<"0", "x", "A">>, <<"0", "5", "0">>, <<"2", "5", "9">>,
     <<"1", "6", "3", "8", "3">>, <<"6", "5", "5", "3", "6">>,
     <<"1", "6", "7", "7", "7", "2", "1", "6">>, <<"0", "x">>, <<"1", "a">>, <<>>}

\* addresses of one to four components, and 1.2.3.4.5
Ipv4Inputs ==
    {join(<<".">>, heads \o <<l>>) :
        heads \in {<<>>}
                    \cup {<<a>> : a \in FirstSamples}
                    \cup {<<a, b>> : a \in FirstSamples, b \in SecondSamples}
                    \cup {<<a, b, c>> : a \in FirstSamples, b \in SecondSamples,
                                        c \in ThirdSamples},
        l \in LastSamples}
        \cup {<<"1", ".", "2", ".", "3", ".", "4", ".", "5">>}

InitIpv4 ==
    /\ NoFileSystemCall
    /\ Imported
    /\ arg \in Ipv4Inputs

NextIpv4 ==
    \/ Call_parse_ipv4
    \/ Call_format_ipv4
    \/ Call_normalize_ipv4_address

SpecIpv4 == InitIpv4 /\ [][NextIpv4]_vars

---------------------------------------------------------------------------
(* The lexical-decimal order *)

\* the characters of the model in the order of their codes
CHARS ==
    <<"\t", "\n", "\r", " ", "+", "-", ".", "/">> \o DIGITS \o <<":">>
        \o SubSeq(LETTERS, 27, 52) \o <<"_">> \o SubSeq(LETTERS, 1, 26) \o <<"|">>
ord(c) == CHOOSE i \in 1..Len(CHARS) : CHARS[i] = c

\* DECIMAL_SPLIT: re.compile(r'(\d+)').split, the parts without digits and
\* the runs of digits in turn, starting and ending with a part without
\* digits (which may be empty)
RECURSIVE DECIMAL_SPLIT(_)
DECIMAL_SPLIT(s) ==
    IF \A i \in 1..Len(s) : s[i] \notin Digit THEN <<s>>
    ELSE LET from == CHOOSE i \in 1..Len(s) :
                        s[i] \in Digit /\ \A j \in 1..(i - 1) : s[j] \notin Digit
             to == run_end(s, from, Digit)
         IN <<SubSeq(s, 1, from - 1), SubSeq(s, from, to - 1)>>
               \o DECIMAL_SPLIT(SubSeq(s, to, Len(s)))

\* a conversion that leaves every part a string
to_str_always(s) == PyStr(s)

\* to_int_if_possible(s): int(s) fails on the parts that hold no digit
to_int_if_possible(s) == IF isdigit(s) THEN PyInt(to_int(s)) ELSE PyStr(s)

\* split_alpha_num(s)
split_alpha_num(s) ==
    LET a_n_splitted == DECIMAL_SPLIT(s)
    IN  IF Len(a_n_splitted) > 1 /\ a_n_splitted[Len(a_n_splitted)] = <<>>
        THEN SubSeq(a_n_splitted, 1, Len(a_n_splitted) - 1)
        ELSE a_n_splitted

\* split_lexdec(lexdec_str)
split_lexdec(lexdec_str) ==
    LET strs == split_alpha_num(lexdec_str)
    IN  [i \in 1..Len(strs) |-> to_int_if_possible(strs[i])]

\* cmp of two strings: by the codes of the first characters that differ, a
\* proper prefix being the smaller
RECURSIVE cmp_str(_, _)
cmp_str(x, y) ==
    IF Len(x) = 0 /\ Len(y) = 0 THEN 0
    ELSE IF Len(x) = 0 THEN -1
    ELSE IF Len(y) = 0 THEN 1
    ELSE IF ord(x[1]) < ord(y[1]) THEN -1
    ELSE IF ord(x[1]) > ord(y[1]) THEN 1
    ELSE cmp_str(Tail(x), Tail(y))

\* cmp of two elements: ints by value, strs as strings, and an int below a
\* str
cmp_element(x, y) ==
    IF x.type = "int" /\ y.type = "int"
    THEN (IF x.n < y.n THEN -1 ELSE IF x.n > y.n THEN 1 ELSE 0)
    ELSE IF x.type = "str" /\ y.type = "str" THEN cmp_str(x.s, y.s)
    ELSE IF x.type = "int" THEN -1 ELSE 1

\* cmp of two tuples: by the first elements that differ, a proper prefix
\* being the smaller
RECURSIVE cmp_tuple(_, _)
cmp_tuple(x, y) ==
    IF Len(x) = 0 /\ Len(y) = 0 THEN 0
    ELSE IF Len(x) = 0 THEN -1
    ELSE IF Len(y) = 0 THEN 1
    ELSE IF cmp_element(x[1], y[1]) # 0 THEN cmp_element(x[1], y[1])
    ELSE cmp_tuple(Tail(x), Tail(y))

\* cmp_lexdec(x_str, y_str)
cmp_lexdec(x_str, y_str) == cmp_tuple(split_lexdec(x_str), split_lexdec(y_str))

\* sorted(seq, cmp=cmp_lexdec): a stable sort, so each element comes right
\* after the elements before it in seq that are not greater
RECURSIVE sorted_lst_lexdec(_)
sorted_lst_lexdec(seqof_lexdec_str) ==
    IF Len(seqof_lexdec_str) = 0 THEN <<>>
    ELSE LET n == Len(seqof_lexdec_str)
             x == seqof_lexdec_str[n]
             front == sorted_lst_lexdec(SubSeq(seqof_lexdec_str, 1, n - 1))
             k == Cardinality({i \in 1..(n - 1) : cmp_lexdec(front[i], x) <= 0})
         IN SubSeq(front, 1, k) \o <<x>> \o SubSeq(front, k + 1, n - 1)

---------------------------------------------------------------------------
(* Calls of the lexical-decimal functions *)

\* cmp_lexdec on the first two strings of the list
Call_cmp_lexdec ==
    /\ Len(arg) >= 2
    /\ "cmp_lexdec" \notin DOMAIN ret
    /\ ret' = Returned("cmp_lexdec", cmp_lexdec(arg[1], arg[2]))
    /\ UNCHANGED <<ifname, fsVars, cmdVars, libVars>>

Call_sorted_lst_lexdec ==
    /\ "sorted_lst_lexdec" \notin DOMAIN ret
    /\ ret' = Returned("sorted_lst_lexdec", sorted_lst_lexdec(arg))
    /\ UNCHANGED <<ifname, fsVars, cmdVars, libVars>>

ETH2 == <<"e", "t", "h", "2">>
ETH10 == <<"e", "t", "h", "1", "0">>
\* eth2, eth10, eth02, eth, eth2a, eth2.10, 9a and the empty string
LexNames ==
    {ETH2, ETH10, <<"e", "t", "h", "0", "2">>, <<"e", "t", "h">>,
     <<"e", "t", "h", "2", "a">>, <<"e", "t", "h", "2", ".", "1", "0">>,
     <<"9", "a">>, <<>>}

InitLexdec ==
    /\ NoFileSystemCall
    /\ Imported
    /\ arg \in SeqsUpTo(LexNames, MaxSorted)

NextLexdec ==
    \/ Call_cmp_lexdec
    \/ Call_sorted_lst_lexdec

SpecLexdec == InitLexdec /\ [][NextLexdec]_vars

---------------------------------------------------------------------------
(* Alias interfaces *)

\* a test that takes a ':' at index 0 as well
is_alias_if_from_0(name) ==
    LET pos == find(name, ":")
    IN IF pos >= 0 THEN isdigit(slice_from(name, pos + 1)) ELSE FALSE

\* is_alias_if(ifname)
is_alias_if(name) ==
    LET pos == find(name, ":")
    IN IF pos > 0 THEN isdigit(slice_from(name, pos + 1)) ELSE FALSE

\* phy_name_from_alias_if(ifname)
phy_name_from_alias_if(name) ==
    IF ~is_alias_if(name) THEN Raised("ValueError")
    ELSE Value(slice_to(name, find(name, ":")))

Call_is_alias_if ==
    /\ "is_alias_if" \notin DOMAIN ret
    /\ ret' = Returned("is_alias_if", is_alias_if(ifname))
    /\ UNCHANGED <<ifname, fsVars, cmdVars, libVars>>

Call_phy_name_from_alias_if ==
    /\ "phy_name_from_alias_if" \notin DOMAIN ret
    /\ ret' = Returned("phy_name_from_alias_if", phy_name_from_alias_if(ifname))
    /\ UNCHANGED <<ifname, fsVars, cmdVars, libVars>>

\* names: nothing or "eth0", followed by up to MaxNameLen characters
AliasChars == {"x", "1", ":"}
AliasNames == {pre \o s : pre \in {<<>>, ETH0}, s \in SeqsUpTo(AliasChars, MaxNameLen)}

InitAlias ==
    /\ IdleCmd
    /\ NoFileSystem
    /\ NoLibCall
    /\ ret = <<>>
    /\ ifname \in AliasNames

NextAlias ==
    \/ Call_is_alias_if
    \/ Call_phy_name_from_alias_if

SpecAlias == InitAlias /\ [][NextAlias]_vars

---------------------------------------------------------------------------
(* xivo/anysql.py: the registry of backends *)

\* any_apilevel, any_threadsafety
any_apilevel == <<"2", ".", "0">>
any_threadsafety == 1

\* cmp of two lists of ints, as < and > on lists have it
RECURSIVE cmp_int_list(_, _)
cmp_int_list(x, y) ==
    IF Len(x) = 0 /\ Len(y) = 0 THEN 0
    ELSE IF Len(x) = 0 THEN -1
    ELSE IF Len(y) = 0 THEN 1
    ELSE IF x[1] < y[1] THEN -1
    ELSE IF x[1] > y[1] THEN 1
    ELSE cmp_int_list(Tail(x), Tail(y))

\* __compare_api_level(als1, als2), for levels written in digits and dots
compare_api_level(als1, als2) ==
    LET lst1 == [i \in 1..Len(split(als1, ".", -1)) |-> to_int(split(als1, ".", -1)[i])]
        lst2 == [i \in 1..Len(split(als2, ".", -1)) |-> to_int(split(als2, ".", -1)[i])]
    IN  IF cmp_int_list(lst1, lst2) < 0
        THEN -1 - (IF lst1[1] < lst2[1] THEN 1 ELSE 0)
        ELSE IF cmp_int_list(lst1, lst2) > 0
        THEN 1 + (IF lst1[1] > lst2[1] THEN 1 ELSE 0)
        ELSE 0

\* how register_uri_backend ends for a module: module.apilevel,
\* module.paramstyle and module.threadsafety are read in a try whose except
\* clause names NameError, so the AttributeError of a missing attribute goes
\* through to the caller
register_outcome(module) ==
    IF {"apilevel", "paramstyle", "threadsafety"} \ module.has # {}
    THEN "AttributeError"
    ELSE LET delta_api == compare_api_level(module.apilevel, any_apilevel)
         IN IF delta_api < 0 \/ delta_api > 1 THEN "NotImplementedError"
            ELSE IF module.paramstyle \notin {"pyformat", "format", "qmark"}
            THEN "NotImplementedError"
            ELSE IF module.threadsafety < any_threadsafety THEN "NotImplementedError"
            ELSE "none"

\* parse.urlsplit(sqluri)[0] for a URI that starts with a scheme in lower
\* case and a ':'
urlsplit_scheme(sqluri) == slice_to(sqluri, find(sqluri, ":"))

SqlCall(f, scheme, module, e) ==
    [fn |-> f, scheme |-> scheme, module |-> module, raised |-> e,
     before |-> uri_create_methods]

\* register_uri_backend(uri_scheme, create_method, module, c14n_uri_method,
\* escape, cast)
Call_register_uri_backend(uri_scheme, module, c14n_uri_method) ==
    /\ sqlLast' = SqlCall("register_uri_backend", uri_scheme, module,
                          register_outcome(module))
    /\ uri_create_methods' =
          IF register_outcome(module) # "none" THEN uri_create_methods
          ELSE [k \in DOMAIN uri_create_methods \cup {uri_scheme} |->
                   IF k = uri_scheme
                   THEN [module |-> module, c14n_uri_method |-> c14n_uri_method]
                   ELSE uri_create_methods[k]]
    /\ UNCHANGED <<netVars, tokVars, curVars>>

\* _get_methods_by_uri(sqluri)
get_methods_by_uri(sqluri) ==
    IF urlsplit_scheme(sqluri) \notin DOMAIN uri_create_methods
    THEN Raised("NotImplementedError")
    ELSE Value(uri_create_methods[urlsplit_scheme(sqluri)])

\* connect_by_uri(sqluri): connection(sqluri) looks the methods up and
\* calls the backend's connect method, which connects or raises an error
\* of its own
Call_connect_by_uri(sqluri) ==
    /\ \E e \in (IF get_methods_by_uri(sqluri).raised # "none"
                 THEN {get_methods_by_uri(sqluri).raised}
                 ELSE {"none", "backend error"}) :
          sqlLast' = SqlCall("connect_by_uri", urlsplit_scheme(sqluri), NoModule, e)
    /\ UNCHANGED <<uri_create_methods, netVars, tokVars, curVars>>

\* c14n_uri(sqluri): the URI as it is when the backend gave no method
Call_c14n_uri(sqluri) ==
    /\ sqlLast' = SqlCall("c14n_uri", urlsplit_scheme(sqluri), NoModule,
                          get_methods_by_uri(sqluri).raised)
    /\ UNCHANGED <<uri_create_methods, netVars, tokVars, curVars>>

AllAttributes == {"apilevel", "paramstyle", "threadsafety"}
\* modules that offer themselves: psycopg2 (2.0, pyformat, 2), sqlite3
\* (2.0, qmark, 1), a 2.1 module, others with one thing out of the way, and
\* modules that lack an attribute
ModuleSamples ==
    {Module(AllAttributes, <<"2", ".", "0">>, "pyformat", 2),
     Module(AllAttributes, <<"2", ".", "0">>, "qmark", 1),
     Module(AllAttributes, <<"2", ".", "1">>, "format", 1),
     Module(AllAttributes, <<"1", ".", "0">>, "pyformat", 2),
     Module(AllAttributes, <<"3", ".", "0">>, "format", 1),
     Module(AllAttributes, <<"2", ".", "0">>, "named", 1),
     Module(AllAttributes, <<"2", ".", "0">>, "numeric", 3),
     Module(AllAttributes, <<"2", ".", "0">>, "qmark", 0),
     Module({"paramstyle", "threadsafety"}, <<>>, "pyformat", 2),
     Module({"apilevel", "threadsafety"}, <<"2", ".", "0">>, "", 2),
     Module({"apilevel", "paramstyle"}, <<"2", ".", "0">>, "pyformat", 0)}

Schemes == {<<"p", "g">>, <<"m", "y">>}
\* pg://x and my://x
SqlUris == {sch \o <<":", "/", "/", "x">> : sch \in Schemes}

InitSql ==
    /\ NoFileSystemCall
    /\ arg = <<>>
    /\ Imported

NextSql ==
    \/ \E sch \in Schemes, m \in ModuleSamples, c \in BOOLEAN :
          Call_register_uri_backend(sch, m, c)
    \/ \E uri \in SqlUris : Call_connect_by_uri(uri)
    \/ \E uri \in SqlUris : Call_c14n_uri(uri)

SpecSql == InitSql /\ [][NextSql]_vars

---------------------------------------------------------------------------
(* xivo/anysql.py: a cursor and its connection.  The raw connections the   *)
(* backend's connect method returns are numbered as they are made, and a   *)
(* raw cursor bears the number of the raw connection it was asked of.      *)

\* how many raw connections are made at most
MaxConnections == 3

CursorOps == {"query", "querymany", "fetchone", "fetchmany", "fetchall"}

\* the exceptions a DBAPI module raises, all of which derive from Exception
DbapiErrors == {"OperationalError", "InterfaceError"}

\* the method of the raw cursor that each operation calls
dbapi2_method(fn) ==
    IF fn = "query" THEN "execute"
    ELSE IF fn = "querymany" THEN "executemany"
    ELSE fn

\* what query and querymany raise before they call the raw cursor:
\* __preparequery raises TypeError when columns are given and the query has
\* no ${columns}, and querymany refuses the qmark paramstyle
prepare_raises(fn, columns_fit, paramstyle) ==
    IF fn \in {"query", "querymany"} /\ ~columns_fit THEN "TypeError"
    ELSE IF fn = "querymany" /\ paramstyle = "qmark" THEN "NotImplementedError"
    ELSE "none"

\* after a call of the raw cursor that raised, always reconnect
after_attempt_again(at, e) ==
    IF e = "none" THEN "idle" ELSE "reconnect"

\* where the operation goes after a call of the raw cursor: it is over when
\* the call returned, the except clause reconnects when the call in the try
\* raised, and what the call in the except clause raises goes to the caller
after_attempt(at, e) ==
    IF e = "none" THEN "idle"
    ELSE IF at = "attempt" THEN "reconnect"
    ELSE "idle"

\* one thing an operation did: a call of the raw cursor `on`, a reconnect of
\* the connection whose raw connection was `on`, or a raw cursor asked of `on`
Event(ev, on, e) == [ev |-> ev, on |-> on, raised |-> e]

\* an operation of the cursor is called
Begin(fn, columns_fit) ==
    /\ curcall.at = "idle"
    /\ cur.dbapi2_conn < MaxConnections
    /\ curcall' =
          [fn |-> fn,
           at |-> IF prepare_raises(fn, columns_fit,
                                    cur.methods.module.paramstyle) = "none"
                  THEN "attempt" ELSE "idle",
           log |-> <<>>,
           raised |-> prepare_raises(fn, columns_fit,
                                     cur.methods.module.paramstyle)]
    /\ UNCHANGED <<cur, netVars, sqlVars, tokVars>>

Call_query(columns_fit) == Begin("query", columns_fit)

Call_querymany(columns_fit) == Begin("querymany", columns_fit)

Call_fetchone == Begin("fetchone", TRUE)

Call_fetchmany == Begin("fetchmany", TRUE)

Call_fetchall == Begin("fetchall", TRUE)

\* the raw cursor's method is called, in the try or in the except clause,
\* and returns or raises
DbapiCall(e) ==
    /\ curcall.at \in {"attempt", "retry"}
    /\ curcall' =
          [curcall EXCEPT
              !.log = Append(@, Event(dbapi2_method(curcall.fn),
                                      cur.dbapi2_cursor, e)),
              !.at = after_attempt(curcall.at, e),
              !.raised = IF after_attempt(curcall.at, e) = "idle"
                         THEN e ELSE "none"]
    /\ UNCHANGED <<cur, netVars, sqlVars, tokVars>>

\* connection.reconnect(): the backend's connect method gives a new raw
\* connection or raises
Reconnect(e) ==
    /\ curcall.at = "reconnect"
    /\ curcall' =
          [curcall EXCEPT
              !.log = Append(@, Event("reconnect", cur.dbapi2_conn, e)),
              !.at = IF e = "none" THEN "get_raw_cursor" ELSE "idle",
              !.raised = e]
    /\ cur' = IF e = "none"
              THEN [cur EXCEPT !.dbapi2_conn = @ + 1]
              ELSE cur
    /\ UNCHANGED <<netVars, sqlVars, tokVars>>

\* self.__dbapi2_cursor = self.__connection._get_raw_cursor(): the raw
\* connection gives a cursor or raises
GetRawCursor(e) ==
    /\ curcall.at = "get_raw_cursor"
    /\ curcall' =
          [curcall EXCEPT
              !.log = Append(@, Event("cursor", cur.dbapi2_conn, e)),
              !.at = IF e = "none" THEN "retry" ELSE "idle",
              !.raised = e]
    /\ cur' = IF e = "none"
              THEN [cur EXCEPT !.dbapi2_cursor = cur.dbapi2_conn]
              ELSE cur
    /\ UNCHANGED <<netVars, sqlVars, tokVars>>

\* a backend is registered under pg, connect_by_uri has returned a
\* connection and connection.cursor() a cursor
InitCursor ==
    /\ NoFileSystemCall
    /\ arg = <<>>
    /\ _valid_netmask = valid_netmask
    /\ Constructed
    /\ sqlLast = NoSqlCall
    /\ \E m \in {mod \in ModuleSamples : register_outcome(mod) = "none"} :
          /\ uri_create_methods =
                [k \in {<<"p", "g">>} |->
                    [module |-> m, c14n_uri_method |-> FALSE]]
          /\ cur = [methods |-> [module |-> m, c14n_uri_method |-> FALSE],
                    dbapi2_conn |-> 1, dbapi2_cursor |-> 1]
    /\ curcall = NoCursorCall

NextCursor ==
    \/ \E columns_fit \in BOOLEAN : Call_query(columns_fit)
    \/ \E columns_fit \in BOOLEAN : Call_querymany(columns_fit)
    \/ Call_fetchone
    \/ Call_fetchmany
    \/ Call_fetchall
    \/ \E e \in {"none"} \cup DbapiErrors : DbapiCall(e)
    \/ \E e \in {"none"} \cup DbapiErrors : Reconnect(e)
    \/ \E e \in {"none"} \cup DbapiErrors : GetRawCursor(e)

SpecCursor == InitCursor /\ [][NextCursor]_vars

---------------------------------------------------------------------------
(* xivo.token_renewer: a TokenRenewer, the threads that call it and the    *)
(* thread that start() creates to run _run.  A token is named by the       *)
(* number of the request that created it; None is 0.                       *)

\* how many tokens the auth client is asked for at most
MaxCreated == 2

\* how many callbacks are subscribed at most
MaxCallbacks == 2

RENEW_TIME_COEFFICIENT_PERCENT == 80

RENEW_TIME_FAILED == 20

DEFAULT_EXPIRATION == 6 * 3600

\* the callbacks a caller subscribes: one returns, the other raises
Callbacks == {"on_token", "on_token_raising"}

RaisingCallbacks == {"on_token_raising"}

\* Thread.join returning at once, whatever the thread is doing
join_done_at_once(position) == TRUE

\* Thread.join returns once _run has returned
join_done(position) == position = "finished"

\* _run leaves its loop when the event is set after the wait
run_returns(stopped) == stopped

\* a delay of 0.8 times the expiration whether or not the token was created
renew_time_from_expiration(succeeded, expiration) ==
    (RENEW_TIME_COEFFICIENT_PERCENT * expiration) \div 100

\* _renew_token: the delay before the next renewal
renew_time(succeeded, expiration) ==
    IF succeeded
    THEN (RENEW_TIME_COEFFICIENT_PERCENT * expiration) \div 100
    ELSE RENEW_TIME_FAILED

\* what a callback raises when it is called: an exception that derives from
\* Exception, or nothing
raises(callback) ==
    IF callback \in RaisingCallbacks THEN "CallbackError" ELSE "none"

\* _notify without its try: what the callback raises is raised
notify_uncaught(callback) == raises(callback)

\* _notify: what it raises; `except Exception` logs what the callback raises
\* and lets nothing through
notify_raises(callback) ==
    IF raises(callback) \in {"none", "CallbackError"}
    THEN "none"
    ELSE raises(callback)

\* _notify: the callback is called with the token
notify(callback, token_id) ==
    Append(notified, [callback |-> callback, token_id |-> token_id,
                      raised |-> callback \in RaisingCallbacks])

\* where a thread goes on once _renew_token has returned: start() sets
\* _started, _run waits again
after_renew_token(t) == IF t = "caller" THEN "start_set" ELSE "wait"

\* the timeout of the wait _run makes after a renewal that left the delay at
\* renew
next_wait(t, renew) == IF t = "renewer" THEN renew ELSE wait_timeout

\* how a call of the TokenRenewer ended
TokenCall(fn, e) == [fn |-> fn, raised |-> e]

\* _renew_token asks the auth client for a token
RenewRequest(t) ==
    /\ tpc[t] = "renew"
    /\ created' = created + 1
    /\ tloc' = [tloc EXCEPT ![t].token_id = created + 1]
    /\ tpc' = [tpc EXCEPT ![t] = "await"]
    /\ UNCHANGED <<_callbacks, _started, _stopped, _renew_time, _thread,
                   wait_timeout, notified, tcall, stop_returned>>
    /\ UNCHANGED <<netVars, sqlVars, curVars>>

\* the request raises: the delay becomes _RENEW_TIME_FAILED, nobody is
\* notified
RenewFailed(t) ==
    /\ tpc[t] = "await"
    /\ _renew_time' = renew_time(FALSE, DEFAULT_EXPIRATION)
    /\ wait_timeout' = next_wait(t, _renew_time')
    /\ tloc' = [tloc EXCEPT ![t] = NoLocals]
    /\ tpc' = [tpc EXCEPT ![t] = after_renew_token(t)]
    /\ UNCHANGED <<_callbacks, _started, _stopped, _thread, created, notified,
                   tcall, stop_returned>>
    /\ UNCHANGED <<netVars, sqlVars, curVars>>

\* the request returns a token: the delay follows the expiration and
\* _notify_all starts
RenewSucceeded(t) ==
    /\ tpc[t] = "await"
    /\ _renew_time' = renew_time(TRUE, DEFAULT_EXPIRATION)
    /\ tloc' = [tloc EXCEPT ![t].i = 1]
    /\ tpc' = [tpc EXCEPT ![t] = "notify_all"]
    /\ UNCHANGED <<_callbacks, _started, _stopped, _thread, wait_timeout,
                   created, notified, tcall, stop_returned>>
    /\ UNCHANGED <<netVars, sqlVars, curVars>>

\* _notify_all: the next callback of _callbacks is notified
NotifyNext(t) ==
    /\ tpc[t] = "notify_all"
    /\ tloc[t].i <= Len(_callbacks)
    /\ notified' = notify(_callbacks[tloc[t].i], tloc[t].token_id)
    /\ IF notify_raises(_callbacks[tloc[t].i]) = "none"
       THEN /\ tloc' = [tloc EXCEPT ![t].i = @ + 1]
            /\ UNCHANGED <<tpc, tcall>>
       ELSE \* an exception out of _notify leaves _notify_all and
            \* _renew_token: start() raises it, _run dies of it
            /\ tloc' = [tloc EXCEPT ![t] = NoLocals]
            /\ tpc' = [tpc EXCEPT ![t] =
                          IF t = "renewer" THEN "finished" ELSE "idle"]
            /\ tcall' = IF t = "renewer"
                        THEN tcall
                        ELSE TokenCall("start",
                                 notify_raises(_callbacks[tloc[t].i]))
    /\ UNCHANGED <<_callbacks, _started, _stopped, _renew_time, _thread,
                   wait_timeout, created, stop_returned>>
    /\ UNCHANGED <<netVars, sqlVars, curVars>>

\* _notify_all: no callback is left
NotifyDone(t) ==
    /\ tpc[t] = "notify_all"
    /\ tloc[t].i > Len(_callbacks)
    /\ wait_timeout' = next_wait(t, _renew_time)
    /\ tloc' = [tloc EXCEPT ![t] = NoLocals]
    /\ tpc' = [tpc EXCEPT ![t] = after_renew_token(t)]
    /\ UNCHANGED <<_callbacks, _started, _stopped, _renew_time, _thread,
                   created, notified, tcall, stop_returned>>
    /\ UNCHANGED <<netVars, sqlVars, curVars>>

\* the steps of _renew_token, made by the thread that called it
renew_token(t) ==
    \/ RenewRequest(t)
    \/ RenewFailed(t)
    \/ RenewSucceeded(t)
    \/ NotifyNext(t)
    \/ NotifyDone(t)

\* subscribe_to_token_change(callback), called on thread t: refused once
\* started
Call_subscribe_to_token_change(t, callback) ==
    /\ tpc[t] = "idle"
    /\ _started \/ Len(_callbacks) < MaxCallbacks
    /\ IF _started
       THEN /\ tcall' = TokenCall("subscribe_to_token_change", "Exception")
            /\ UNCHANGED <<tpc, tloc>>
       ELSE /\ tpc' = [tpc EXCEPT ![t] = "subscribe_append"]
            /\ tloc' = [tloc EXCEPT ![t].callback = callback]
            /\ UNCHANGED tcall
    /\ UNCHANGED <<_callbacks, _started, _stopped, _renew_time, _thread,
                   wait_timeout, created, notified, stop_returned>>
    /\ UNCHANGED <<netVars, sqlVars, curVars>>

\* subscribe_to_token_change: the callback joins _callbacks
SubscribeAppend(t) ==
    /\ tpc[t] = "subscribe_append"
    /\ _callbacks' = Append(_callbacks, tloc[t].callback)
    /\ tpc' = [tpc EXCEPT ![t] = "subscribe_notify"]
    /\ UNCHANGED <<_started, _stopped, _renew_time, _thread, tloc,
                   wait_timeout, created, notified, tcall, stop_returned>>
    /\ UNCHANGED <<netVars, sqlVars, curVars>>

\* subscribe_to_token_change: the callback is notified with None
SubscribeNotify(t) ==
    /\ tpc[t] = "subscribe_notify"
    /\ notified' = notify(tloc[t].callback, 0)
    /\ tpc' = [tpc EXCEPT ![t] = "idle"]
    /\ tloc' = [tloc EXCEPT ![t] = NoLocals]
    /\ tcall' = TokenCall("subscribe_to_token_change",
                          notify_raises(tloc[t].callback))
    /\ UNCHANGED <<_callbacks, _started, _stopped, _renew_time, _thread,
                   wait_timeout, created, stop_returned>>
    /\ UNCHANGED <<netVars, sqlVars, curVars>>

\* start(): refused once started, otherwise it renews the token itself
Call_start ==
    /\ tpc.caller = "idle"
    /\ _started \/ created < MaxCreated
    /\ IF _started
       THEN /\ tcall' = TokenCall("start", "Exception")
            /\ UNCHANGED tpc
       ELSE /\ tpc' = [tpc EXCEPT !.caller = "renew"]
            /\ UNCHANGED tcall
    /\ UNCHANGED <<_callbacks, _started, _stopped, _renew_time, _thread, tloc,
                   wait_timeout, created, notified, stop_returned>>
    /\ UNCHANGED <<netVars, sqlVars, curVars>>

\* start(): self._started = True
StartSetStarted ==
    /\ tpc.caller = "start_set"
    /\ _started' = TRUE
    /\ tpc' = [tpc EXCEPT !.caller = "start_thread"]
    /\ UNCHANGED <<_callbacks, _stopped, _renew_time, _thread, tloc,
                   wait_timeout, created, notified, tcall, stop_returned>>
    /\ UNCHANGED <<netVars, sqlVars, curVars>>

\* start(): self._thread = threading.Thread(target=self._run)
StartCreateThread ==
    /\ tpc.caller = "start_thread"
    /\ _thread' = "created"
    /\ tpc' = [tpc EXCEPT !.caller = "start_run"]
    /\ UNCHANGED <<_callbacks, _started, _stopped, _renew_time, tloc,
                   wait_timeout, created, notified, tcall, stop_returned>>
    /\ UNCHANGED <<netVars, sqlVars, curVars>>

\* start(): self._thread.start(); _run begins with a wait of _renew_time
StartRunThread ==
    /\ tpc.caller = "start_run"
    /\ _thread' = "started"
    /\ tpc' = [tpc EXCEPT !.caller = "idle", !.renewer = "wait"]
    /\ wait_timeout' = _renew_time
    /\ tcall' = TokenCall("start", "none")
    /\ UNCHANGED <<_callbacks, _started, _stopped, _renew_time, tloc, created,
                   notified, stop_returned>>
    /\ UNCHANGED <<netVars, sqlVars, curVars>>

\* stop(): the event is set; there is no _thread to join before start()
Call_stop ==
    /\ tpc.caller = "idle"
    /\ _stopped' = TRUE
    /\ IF _thread = "none"
       THEN /\ tcall' = TokenCall("stop", "AttributeError")
            /\ UNCHANGED tpc
       ELSE /\ tpc' = [tpc EXCEPT !.caller = "stop_join"]
            /\ UNCHANGED tcall
    /\ UNCHANGED <<_callbacks, _started, _renew_time, _thread, tloc,
                   wait_timeout, created, notified, stop_returned>>
    /\ UNCHANGED <<netVars, sqlVars, curVars>>

\* stop(): self._thread.join() returns
StopJoined ==
    /\ tpc.caller = "stop_join"
    /\ join_done(tpc.renewer)
    /\ tpc' = [tpc EXCEPT !.caller = "idle"]
    /\ tcall' = TokenCall("stop", "none")
    /\ stop_returned' = TRUE
    /\ UNCHANGED <<_callbacks, _started, _stopped, _renew_time, _thread, tloc,
                   wait_timeout, created, notified>>
    /\ UNCHANGED <<netVars, sqlVars, curVars>>

\* _run: the wait ends because its timeout has elapsed
WaitTimeout ==
    /\ tpc.renewer = "wait"
    /\ created < MaxCreated
    /\ tpc' = [tpc EXCEPT !.renewer = "check"]
    /\ UNCHANGED <<_callbacks, _started, _stopped, _renew_time, _thread, tloc,
                   wait_timeout, created, notified, tcall, stop_returned>>
    /\ UNCHANGED <<netVars, sqlVars, curVars>>

\* _run: the wait ends because the event is set
WaitWoken ==
    /\ tpc.renewer = "wait"
    /\ _stopped
    /\ tpc' = [tpc EXCEPT !.renewer = "check"]
    /\ UNCHANGED <<_callbacks, _started, _stopped, _renew_time, _thread, tloc,
                   wait_timeout, created, notified, tcall, stop_returned>>
    /\ UNCHANGED <<netVars, sqlVars, curVars>>

\* _run: after the wait it returns if the event is set and renews otherwise
RunCheck ==
    /\ tpc.renewer = "check"
    /\ tpc' = [tpc EXCEPT !.renewer =
                  IF run_returns(_stopped) THEN "finished" ELSE "renew"]
    /\ UNCHANGED <<_callbacks, _started, _stopped, _renew_time, _thread, tloc,
                   wait_timeout, created, notified, tcall, stop_returned>>
    /\ UNCHANGED <<netVars, sqlVars, curVars>>

\* the steps the renewer thread makes without time passing
run ==
    \/ WaitWoken
    \/ RunCheck
    \/ renew_token("renewer")

InitToken ==
    /\ NoFileSystemCall
    /\ NoLibCall

NextToken ==
    \/ \E callback \in Callbacks :
          Call_subscribe_to_token_change("caller", callback)
    \/ SubscribeAppend("caller")
    \/ SubscribeNotify("caller")
    \/ Call_start
    \/ renew_token("caller")
    \/ StartSetStarted
    \/ StartCreateThread
    \/ StartRunThread
    \/ Call_stop
    \/ StopJoined
    \/ WaitTimeout
    \/ run

SpecToken == InitToken /\ [][NextToken]_vars

\* subscribe_to_token_change called on a second thread while the first one
\* calls the TokenRenewer too
NextTokenRace ==
    \/ NextToken
    \/ \E callback \in Callbacks :
          Call_subscribe_to_token_change("subscriber", callback)
    \/ SubscribeAppend("subscriber")
    \/ SubscribeNotify("subscriber")

SpecTokenRace == InitToken /\ [][NextTokenRace]_vars

\* the renewer thread is scheduled and the auth client answers; joining a
\* finished thread returns; nothing makes time pass
SpecTokenFair ==
    /\ SpecToken
    /\ WF_vars(run)
    /\ WF_vars(StopJoined)

---------------------------------------------------------------------------
(* Properties of force_shutdown and of the spawning operations *)

InShutdown == op = "force_shutdown"

\* the registered interfaces: the entries of /sys/class/net that are directories
Registered == {sysClassNet[i].name : i \in {j \in 1..Len(sysClassNet) : sysClassNet[j].isdir}}

\* the registered VLAN children of p: names that are p, a ".", and anything
VlanChildren(p) ==
    {n \in Registered : Len(n) > Len(p) /\ SubSeq(n, 1, Len(p)) = p /\ n[Len(p) + 1] = "."}

\* place of a registered name in the listing
ListingPos(n) == CHOOSE i \in 1..Len(sysClassNet) : sysClassNet[i].name = n

IsKill(a) == a.cmd.bin = "ifplugd -k"
IsDown(a) == a.cmd.bin = "ifdown"
ExitedWith(a, S) == a.state = "exited" /\ a.status \in S
Failed(a) == a.state = "OSError" \/ (a.state = "exited" /\ a.status # 0)
DownAttempts == {i \in 1..Len(invocations) : IsDown(invocations[i])}

\* the kill command comes first and only there; ifdown(phy) comes after
\* ifdown has returned 0 for every VLAN child, and nothing comes after it
KillFirstPhyLast ==
    InShutdown =>
        /\ \A i \in 1..Len(invocations) :
              IF i = 1 THEN invocations[i].cmd = IfplugdKill(phy)
              ELSE IsDown(invocations[i])
        /\ \A i \in DownAttempts :
              invocations[i].cmd.arg = phy =>
                  /\ i = Len(invocations)
                  /\ \A c \in VlanChildren(phy) :
                        \E j \in 2..(i - 1) :
                            /\ invocations[j].cmd = Ifdown(c)
                            /\ ExitedWith(invocations[j], {0})

ScenarioEth0 ==
    /\ InShutdown
    /\ phy = ETH0
    /\ Registered = {ETH0, ETH0_10, ETH0_20}
    /\ result = "returned"

\* C1 as stated: in every force_shutdown(phy) the ifplugd kill command is
\* invoked first, ifdown is invoked on the VLAN children and on phy last,
\* after every child's ifdown returned 0; and with eth0, eth0.10, eth0.20
\* registered, force_shutdown("eth0") issues exactly kill-daemon(eth0),
\* down(eth0.10), down(eth0.20), down(eth0), in that order.
C1_Original ==
    /\ KillFirstPhyLast
    /\ ScenarioEth0 =>
          [i \in 1..Len(invocations) |-> invocations[i].cmd]
              = <<IfplugdKill(ETH0), Ifdown(ETH0_10), Ifdown(ETH0_20), Ifdown(ETH0)>>

\* C1 amended: the kill command first, phy last and after every child's
\* ifdown returned 0, and the VLAN children are brought down in the order
\* in which the listing of /sys/class/net returns them: with eth0, eth0.10,
\* eth0.20 registered there are exactly 4 invocations, kill-daemon(eth0)
\* first, down(eth0) last, and down(eth0.10) before down(eth0.20) exactly
\* when the listing returns eth0.10 before eth0.20.
C1_ShutdownOrder ==
    /\ KillFirstPhyLast
    /\ InShutdown =>
          \A i, j \in DownAttempts :
              (i < j /\ invocations[j].cmd.arg # phy) =>
                  ListingPos(invocations[i].cmd.arg) < ListingPos(invocations[j].cmd.arg)
    /\ ScenarioEth0 =>
          /\ Len(invocations) = 4
          /\ invocations[1].cmd = IfplugdKill(ETH0)
          /\ invocations[4].cmd = Ifdown(ETH0)
          /\ {invocations[2].cmd, invocations[3].cmd} = {Ifdown(ETH0_10), Ifdown(ETH0_20)}
          /\ (invocations[2].cmd = Ifdown(ETH0_10)) = (ListingPos(ETH0_10) < ListingPos(ETH0_20))

\* the scenario of C1 has run to its end, the listing returning eth0.10 first
C1_Witness ==
    /\ ScenarioEth0
    /\ ListingPos(ETH0_10) < ListingPos(ETH0_20)
    /\ Len(invocations) = 4

\* C2: a failed ifdown (a non-zero exit or a spawn failure) is the last
\* invocation of the call, the call has failed with NetworkOpError at once,
\* and the call invokes nothing but the kill command and ifdown (nothing that
\* has been brought down is brought up again).
C2_FailureAborts ==
    InShutdown =>
        \A i \in DownAttempts :
            Failed(invocations[i]) =>
                /\ i = Len(invocations)
                /\ pc = "done"
                /\ result = "NetworkOpError"
                /\ \A j \in 1..(i - 1) : IsKill(invocations[j]) \/ IsDown(invocations[j])
                /\ \A j \in 2..(i - 1) : ExitedWith(invocations[j], {0})

\* a VLAN child's ifdown has failed after another child had been brought down
C2_Witness ==
    /\ InShutdown
    /\ pc = "done"
    /\ Len(invocations) = 3
    /\ ExitedWith(invocations[2], {0})
    /\ Failed(invocations[3])
    /\ invocations[3].cmd.arg # phy

KillOver == Len(invocations) >= 1 /\ invocations[1].state # "running"
KillSucceeded == KillOver /\ ExitedWith(invocations[1], {0, 6})
InIfdownPhase == pc \in {"list", "down", "down_wait"} \/ DownAttempts # {}

\* the ifdown invocations a call makes when nothing fails: the children in
\* listing order, then phy
DownsWhenAllSucceed(p) ==
    LET kids == SelectSeq(sysClassNet, LAMBDA e : e.isdir /\ e.name \in VlanChildren(p))
    IN [i \in 1..(Len(kids) + 1) |-> IF i <= Len(kids) THEN Ifdown(kids[i].name) ELSE Ifdown(p)]

\* C3: force_shutdown reaches the ifdown phase iff the kill command was
\* spawned and exited with 0 or 6; otherwise the call fails with
\* NetworkOpError and no ifdown is invoked; after status 6, as after status
\* 0, the ifdown invocations are those of the shutdown list, in its order.
C3_KillStatus ==
    (InShutdown /\ KillOver) =>
        /\ KillSucceeded <=> (InIfdownPhase \/ result = "returned")
        /\ ~KillSucceeded =>
              /\ pc = "done"
              /\ result = "NetworkOpError"
              /\ DownAttempts = {}
        /\ KillSucceeded =>
              /\ Len(invocations) - 1 <= Len(DownsWhenAllSucceed(phy))
              /\ \A i \in 2..Len(invocations) :
                    invocations[i].cmd = DownsWhenAllSucceed(phy)[i - 1]
              /\ result = "returned" => Len(invocations) - 1 = Len(DownsWhenAllSucceed(phy))

\* the kill command exited with 6 and the call went on to bring down a VLAN
\* child and phy
C3_Witness ==
    /\ InShutdown
    /\ KillOver
    /\ ExitedWith(invocations[1], {6})
    /\ result = "returned"
    /\ Len(invocations) >= 3

\* C4: when every command succeeds, ifdown has been invoked exactly once on
\* each registered name starting with phy + "." and on phy, and in no state
\* of the call has it been invoked on any other interface.
C4_ShutdownSet ==
    InShutdown =>
        /\ \A i \in DownAttempts : invocations[i].cmd.arg \in VlanChildren(phy) \cup {phy}
        /\ \A i, j \in DownAttempts : invocations[i].cmd.arg = invocations[j].cmd.arg => i = j
        /\ result = "returned" =>
              {invocations[i].cmd.arg : i \in DownAttempts} = VlanChildren(phy) \cup {phy}

\* eth0 and a VLAN child were brought down while eth00 and eth1.10 are registered
C4_Witness ==
    /\ InShutdown
    /\ phy = ETH0
    /\ result = "returned"
    /\ {ETH00, ETH1_10} \subseteq Registered
    /\ VlanChildren(phy) # {}

\* C5: at most one child process spawned by the module is running, and one
\* is running only while the caller is blocked waiting for it: none is left
\* when the caller spawns the next command or when the operation is over.
C5_OneChildAtATime ==
    /\ Len(children) <= 1
    /\ pc \in {"idle", "kill", "list", "down", "start", "exec", "done"} => children = <<>>
    /\ pc \in {"kill_wait", "down_wait", "start_wait", "exec_wait"} =>
          /\ Len(invocations) >= 1
          /\ children = <<invocations[Len(invocations)].cmd>>
          /\ \A i \in 1..(Len(invocations) - 1) : invocations[i].state # "running"

\* an ifdown child is running after the kill child has exited
C5_Witness ==
    /\ Len(children) = 1
    /\ pc = "down_wait"
    /\ Len(invocations) >= 2
    /\ invocations[1].state = "exited"


---------------------------------------------------------------------------
(* Properties of VLAN discovery and of the name classifier *)

Called(f) == f \in DOMAIN ret

\* the name is confirmed as a live VLAN interface: a registered interface
\* with an entry under /proc/net/vlan
LiveVlan(name) == name \in procNetVlan /\ name \in Registered

\* what the lines of the model's config files say, read by eye
LineSays(line) ==
    CASE line = LINE_ETH0_5_ON_ETH1 -> [entry |-> TRUE, name |-> ETH0_5, id |-> 7, raw |-> ETH1]
      [] line = LINE_ETH0_5_ON_ETH0 -> [entry |-> TRUE, name |-> ETH0_5, id |-> 5, raw |-> ETH0]
      [] line = LINE_MGMT -> [entry |-> TRUE, name |-> MGMT, id |-> 12, raw |-> ETH0]
      [] line = LINE_INDENTED -> [entry |-> TRUE, name |-> ETH1_10, id |-> 10, raw |-> ETH1]
      [] OTHER -> [entry |-> FALSE, name |-> <<>>, id |-> 0, raw |-> <<>>]

\* the lines of the config file that are an entry for name
EntryPlaces(name) ==
    {i \in 1..Len(vlanConfig.lines) :
        LineSays(vlanConfig.lines[i]).entry /\ LineSays(vlanConfig.lines[i]).name = name}

\* the entry the config file has for name (its last one)
ConfigEntry(name) ==
    LineSays(vlanConfig.lines[CHOOSE i \in EntryPlaces(name) : \A j \in EntryPlaces(name) : j <= i])

\* C6: for a live VLAN interface get_vlan_info returns the record of
\* /proc/net/vlan/config whenever the file is readable and has an entry for
\* the name, also when the name says otherwise (eth0.5 with vlan-id 7 on
\* eth1), and the name-derived record only when the file is unreadable or has
\* no entry for the name.
C6_ConfigPrecedence ==
    (Called("get_vlan_info") /\ LiveVlan(ifname)) =>
        IF vlanConfig.readable /\ EntryPlaces(ifname) # {}
        THEN ret["get_vlan_info"] = IdRawDict(ConfigEntry(ifname).id, ConfigEntry(ifname).raw)
        ELSE ret["get_vlan_info"] = get_vlan_info_from_ifname(ifname)

\* eth0.5 is live, the config file says vlan-id 7 on eth1, and that is returned
C6_Witness ==
    /\ Called("get_vlan_info")
    /\ ifname = ETH0_5
    /\ LiveVlan(ifname)
    /\ vlanConfig.readable
    /\ EntryPlaces(ifname) # {}
    /\ ConfigEntry(ifname).raw = ETH1
    /\ ret["get_vlan_info"] = IdRawDict(7, ETH1)

\* C7 as stated: get_vlan_info returns False whenever is_vlan_if(name) is
\* false, or the name is not a registered interface with an entry under
\* /proc/net/vlan.
C7_Original ==
    (Called("get_vlan_info") /\ (~is_vlan_if(ifname) \/ ~LiveVlan(ifname))) =>
        ret["get_vlan_info"] = PyFalse

\* C7 amended: get_vlan_info returns False exactly when the name is not a
\* registered interface with an entry under /proc/net/vlan; is_vlan_if is
\* not consulted, and a live VLAN interface whose name is_vlan_if rejects
\* gets a record.
C7_FalseIffNotLive ==
    Called("get_vlan_info") =>
        /\ ~LiveVlan(ifname) => ret["get_vlan_info"] = PyFalse
        /\ LiveVlan(ifname) => ret["get_vlan_info"].type = "dict"

\* a VLAN name has a file under /proc/net/vlan but is not registered: False
C7_Witness ==
    /\ Called("get_vlan_info")
    /\ is_vlan_if(ifname)
    /\ ifname \in procNetVlan
    /\ ~LiveVlan(ifname)
    /\ ret["get_vlan_info"] = PyFalse

\* the places of the "." characters of a name
DotPlaces(name) == {i \in 1..Len(name) : name[i] = "."}
LastDot(name) == CHOOSE i \in DotPlaces(name) : \A j \in DotPlaces(name) : j <= i
\* the name ends in a "." followed by one or more digits
EndsInDotDigits(name) ==
    /\ DotPlaces(name) # {}
    /\ isdigit(SubSeq(name, LastDot(name) + 1, Len(name)))
IsVlanN(name) ==
    /\ Len(name) > 4
    /\ SubSeq(name, 1, 4) = <<"v", "l", "a", "n">>
    /\ isdigit(SubSeq(name, 5, Len(name)))

\* the record C8 describes
RecordByName(name) ==
    IF IsVlanN(name) THEN IdDict(to_int(SubSeq(name, 5, Len(name))))
    ELSE IF EndsInDotDigits(name) /\ LastDot(name) > 1
    THEN IdRawDict(to_int(SubSeq(name, LastDot(name) + 1, Len(name))),
                   SubSeq(name, 1, LastDot(name) - 1))
    ELSE IF EndsInDotDigits(name) /\ ~startswith(name, VLAN_PREFIX)
    THEN IdDict(to_int(SubSeq(name, LastDot(name) + 1, Len(name))))
    ELSE EmptyDict

\* C8: get_vlan_info_from_ifname yields only vlan-id N for vlan<N>,
\* vlan-raw-device = base and vlan-id = N for <base>.<N> with a non-empty
\* base (eth0.5), only vlan-id N for any other name ending in .<N> that does
\* not start with vlan, and the empty record otherwise.
C8_Original ==
    Called("get_vlan_info_from_ifname") =>
        ret["get_vlan_info_from_ifname"] = RecordByName(ifname)

C10_Original ==
    (Called("is_phy_if") /\ Called("is_vlan_if")) =>
        ~(ret["is_phy_if"] /\ ret["is_vlan_if"])


---------------------------------------------------------------------------
(* Properties of get_linux_vlan_config *)

\* the names the lines of the config file give an entry to
EntryNames ==
    {LineSays(vlanConfig.lines[i]).name :
        i \in {j \in 1..Len(vlanConfig.lines) : LineSays(vlanConfig.lines[j]).entry}}

\* C11: get_linux_vlan_config() returns False when /proc/net/vlan/config is
\* not readable; otherwise it returns a dict whose keys are exactly the names
\* of the lines of the form name | vlan-id | raw-device, each with the
\* vlan-id and raw device of its (last) line; the other lines are skipped
\* and change no entry.
C11_ConfigDict ==
    (Called("get_linux_vlan_config") /\ ifname = None) =>
        LET v == ret["get_linux_vlan_config"]
        IN IF ~vlanConfig.readable THEN v = NoConfig
           ELSE /\ v.type = "dict"
                /\ DOMAIN v.entries = EntryNames
                /\ \A n \in EntryNames :
                      v.entries[n] = IdRawDict(ConfigEntry(n).id, ConfigEntry(n).raw)

\* a line that does not parse stands before the line of eth1.10, and the
\* dict has the entry of eth1.10 all the same
C11_Witness ==
    /\ Called("get_linux_vlan_config")
    /\ ifname = None
    /\ vlanConfig.readable
    /\ vlanConfig.lines = <<LINE_BAD_ID, LINE_INDENTED>>
    /\ DOMAIN ret["get_linux_vlan_config"].entries = {ETH1_10}
    /\ ret["get_linux_vlan_config"].entries[ETH1_10] = IdRawDict(10, ETH1)


---------------------------------------------------------------------------
(* Properties of the netmask functions *)

\* bit i (0 the most significant, 31 the least) of a tuple of four bytes
BitOf(t, i) == (t[(i \div 8) + 1] \div 2^(7 - (i % 8))) % 2

\* some number of one-bits followed by zero-bits only
OnesThenZeros(t) == \A i \in 0..30 : BitOf(t, i + 1) = 1 => BitOf(t, i) = 1

\* the number of one-bits
Ones(t) == Cardinality({i \in 0..31 : BitOf(t, i) = 1})

\* C12: plausible_netmask(t) is true exactly when the 32 bits of t are n
\* one-bits followed by 32 - n zero-bits, and t is then
\* bitmask_to_mask_ipv4(n); a t that is accepted is bitmask_to_mask_ipv4(n)
\* for its number n of one-bits; there are 33 valid netmasks.
C12_PlausibleIffPrefixMask ==
    Called("plausible_netmask") =>
        /\ ret["plausible_netmask"] = OnesThenZeros(arg)
        /\ ret["plausible_netmask"] = (arg = bitmask_to_mask_ipv4(Ones(arg)).value)
        /\ Cardinality(_valid_netmask) = 33

\* 255.255.128.0, the mask of prefix length 17, is accepted
C12_Witness ==
    /\ Called("plausible_netmask")
    /\ arg = <<255, 255, 128, 0>>
    /\ arg = bitmask_to_mask_ipv4(17).value
    /\ ret["plausible_netmask"]

\* C13: bitmask_to_mask_ipv4(bits) raises a range error for every bits
\* outside 0..32, negative or above 32, and bitmask_to_mask_ipv6(bits) for
\* every bits outside 0..128; neither returns a mask then.
C13_Original ==
    /\ (Called("bitmask_to_mask_ipv4") /\ ~(arg \in 0..32)) =>
          ret["bitmask_to_mask_ipv4"] = Raised("ValueError")
    /\ (Called("bitmask_to_mask_ipv6") /\ ~(arg \in 0..128)) =>
          ret["bitmask_to_mask_ipv6"] = Raised("ValueError")


---------------------------------------------------------------------------
(* Properties of the MAC address functions *)

\* C14: normalize_mac_address(s) raises a format error whenever s is not
\* six hexadecimal octets of 0..255 separated by ':', so that it returns a
\* value only for the inputs is_mac_address_valid accepts.
C14_Original ==
    (Called("normalize_mac_address") /\ ~is_mac_address_valid(arg)) =>
        ret["normalize_mac_address"] = Raised("ValueError")


---------------------------------------------------------------------------
(* Properties of the IPv4 address functions *)

\* the number a string of digits in base b writes
RECURSIVE InBase(_, _)
InBase(s, b) ==
    IF Len(s) = 0 THEN 0 ELSE b * InBase(SubSeq(s, 1, Len(s) - 1), b) + HexVal(s[Len(s)])

\* the number one component writes under the aton rule: hexadecimal after
\* 0x, octal after 0, decimal otherwise
Literal(part) ==
    IF Len(part) >= 2 /\ part[1] = "0" /\ part[2] \in {"x", "X"}
    THEN InBase(SubSeq(part, 3, Len(part)), 16)
    ELSE IF part[1] = "0" THEN InBase(part, 8)
    ELSE InBase(part, 10)

\* the decimal writing of a byte
DecimalOf(n) ==
    IF n < 10 THEN <<DIGITS[n + 1]>>
    ELSE IF n < 100 THEN <<DIGITS[(n \div 10) + 1], DIGITS[(n % 10) + 1]>>
    ELSE <<DIGITS[(n \div 100) + 1], DIGITS[((n \div 10) % 10) + 1], DIGITS[(n % 10) + 1]>>

\* four decimal components of 0..255, none with a needless leading 0
Canonical(s) ==
    LET parts == split(s, ".", -1)
    IN  /\ Len(parts) = 4
        /\ \A i \in 1..4 :
              /\ isdigit(parts[i])
              /\ Len(parts[i]) <= 3
              /\ parts[i] = DecimalOf(to_int(parts[i]))
              /\ to_int(parts[i]) <= 255

\* the four bytes an address of p components stands for: the first p - 1
\* components are the first bytes, and the last one fills the 5 - p bytes
\* that remain, most significant first
AtonBytes(s) ==
    LET parts == split(s, ".", -1)
        p == Len(parts)
        last == Literal(parts[p])
    IN  [i \in 1..4 |->
            IF i < p THEN Literal(parts[i]) ELSE (last \div 256^(4 - i)) % 256]

\* C15: format_ipv4(parse_ipv4(s)) is the canonical dotted-decimal form of
\* s under the aton rule: the decimal writing of the four bytes s stands
\* for, with a leading 0 read as octal, 0x as hexadecimal and the last of
\* fewer than four components spread over the remaining bytes; a canonical s
\* comes back unchanged, and parsing the result gives the same four bytes.
C15_CanonicalForm ==
    Called("format_ipv4") =>
        LET out == ret["format_ipv4"]
        IN  /\ Canonical(out)
            /\ out = join(<<".">>, [i \in 1..4 |-> DecimalOf(AtonBytes(arg)[i])])
            /\ Canonical(arg) => out = arg
            /\ parse_ipv4(out) = ret["parse_ipv4"]
            /\ arg = <<"1">> => out = <<"0", ".", "0", ".", "0", ".", "1">>
            /\ arg = <<"1", ".", "1", "6", "3", "8", "3">>
                  => out = <<"1", ".", "0", ".", "6", "3", ".", "2", "5", "5">>
            /\ arg = <<"1", ".", "2", ".", "3", ".", "0", "7", "7">>
                  => out = <<"1", ".", "2", ".", "3", ".", "6", "3">>

\* 1.2.3.077 has been parsed and formatted: 1.2.3.63
C15_Witness ==
    /\ Called("format_ipv4")
    /\ arg = <<"1", ".", "2", ".", "3", ".", "0", "7", "7">>
    /\ ret["parse_ipv4"] = Value(<<1, 2, 3, 63>>)
    /\ ret["format_ipv4"] = <<"1", ".", "2", ".", "3", ".", "6", "3">>


---------------------------------------------------------------------------
(* Properties of route_list *)

IP_10_0_0_0 == <<"1", "0", ".", "0", ".", "0", ".", "0">>
IP_192_168_1_1 == <<"1", "9", "2", ".", "1", "6", "8", ".", "1", ".", "1">>

\* what the lines of the model's outputs say, read by eye: destination,
\* prefix length and gateway
RouteSays(line) ==
    CASE line = ROUTE_10_24 -> <<<<IP_10_0_0_0, PyInt(24), IP_192_168_1_1>>>>
      [] line = ROUTE_10_HOST -> <<<<IP_10_0_0_0, PyInt(32), IP_192_168_1_1>>>>
      [] line = ROUTE_V6 -> <<<<<<"1", ":", ":">>, PyInt(64), <<"1", ":", ":", "1">>>>>>
      [] OTHER -> <<>>

\* the entries of all the lines, in the order of the lines
RECURSIVE RoutesSaid(_)
RoutesSaid(lines) ==
    IF Len(lines) = 0 THEN <<>> ELSE RouteSays(Head(lines)) \o RoutesSaid(Tail(lines))

\* C16: route_list() returns, in the order of the output lines, one entry
\* for each line of the form <destination>[/<prefix>] via <gateway> ... and
\* none for any other line; the entry has the destination, the gateway and
\* as prefix length the number after '/', or 32 when there is no /<prefix>.
C16_Original ==
    (op = "route_list" /\ result = "returned") =>
        routes = RoutesSaid(split(stdout, "\n", -1))


---------------------------------------------------------------------------
(* Properties of the lexical-decimal order *)

\* x comes before y as strings
StrLess(x, y) ==
    \E k \in 1..(Len(x) + 1) :
        /\ \A i \in 1..(k - 1) : i <= Len(y) /\ x[i] = y[i]
        /\ \/ k = Len(x) + 1 /\ Len(y) >= k
           \/ k <= Len(x) /\ k <= Len(y) /\ ord(x[k]) < ord(y[k])

\* x comes before y as elements of a split string: digit runs as integers
ElementLess(x, y) ==
    IF x.type = "int" /\ y.type = "int" THEN x.n < y.n
    ELSE IF x.type = "str" /\ y.type = "str" THEN StrLess(x.s, y.s)
    ELSE x.type = "int"

\* standard sequence comparison: u comes before v when it is a proper
\* prefix of v or the first elements that differ say so
SeqLess(u, v) ==
    \E k \in 1..(Len(u) + 1) :
        /\ \A i \in 1..(k - 1) : i <= Len(v) /\ u[i] = v[i]
        /\ \/ k = Len(u) + 1 /\ Len(v) >= k
           \/ k <= Len(u) /\ k <= Len(v) /\ ElementLess(u[k], v[k])

\* how many times x stands in the list
Count(list, x) == Cardinality({i \in 1..Len(list) : list[i] = x})

\* C17: cmp_lexdec(a, b) is the standard sequence comparison of
\* split_lexdec(a) and split_lexdec(b), in which the runs of digits are
\* integers and a proper prefix is the smaller, so that eth2 comes before
\* eth10; sorted_lst_lexdec(xs) is a permutation of xs, the elements as they
\* were, in non-decreasing cmp_lexdec order.
C17_LexdecOrder ==
    /\ Called("cmp_lexdec") =>
          LET u == split_lexdec(arg[1])
              v == split_lexdec(arg[2])
              c == ret["cmp_lexdec"]
          IN  /\ c \in {-1, 0, 1}
              /\ c = -1 <=> SeqLess(u, v)
              /\ c = 1 <=> SeqLess(v, u)
              /\ c = 0 <=> u = v
              /\ \A i \in 1..Len(u) : u[i].type = (IF i % 2 = 0 THEN "int" ELSE "str")
              /\ (arg[1] = ETH2 /\ arg[2] = ETH10) => c = -1
    /\ Called("sorted_lst_lexdec") =>
          LET out == ret["sorted_lst_lexdec"]
          IN  /\ Len(out) = Len(arg)
              /\ \A x \in LexNames : Count(out, x) = Count(arg, x)
              /\ \A i, j \in 1..Len(out) : i < j => cmp_lexdec(out[i], out[j]) <= 0

\* eth10, eth2 has been compared and sorted: eth2 comes first
C17_Witness ==
    /\ Called("cmp_lexdec")
    /\ Called("sorted_lst_lexdec")
    /\ arg = <<ETH10, ETH2>>
    /\ ret["cmp_lexdec"] = 1
    /\ ret["sorted_lst_lexdec"] = <<ETH2, ETH10>>


---------------------------------------------------------------------------
(* Properties of the alias functions *)

\* the places of name that hold a ':', counted from 1
ColonPlaces(name) == {i \in 1..Len(name) : name[i] = ":"}

\* what follows place i is a non-empty run of digits up to the end
DigitsAfter(name, i) == i < Len(name) /\ \A j \in (i + 1)..Len(name) : name[j] \in Digit

\* C18 as stated: phy_name_from_alias_if(name) fails exactly when
\* is_alias_if(name) is false, is_alias_if(name) being true exactly when
\* name has a ':' after index 0 that a non-empty all-digit suffix follows; on
\* success the non-empty prefix before that ':' is returned.
C18_Original ==
    LET alias == \E i \in ColonPlaces(ifname) : i > 1 /\ DigitsAfter(ifname, i)
    IN  /\ Called("is_alias_if") => ret["is_alias_if"] = alias
        /\ Called("phy_name_from_alias_if") =>
              (ret["phy_name_from_alias_if"].raised # "none") = ~alias

\* C18 amended: is_alias_if(name) is true exactly when the first ':' of
\* name stands after index 0 and a non-empty all-digit suffix follows it (so
\* that name has one ':' only); phy_name_from_alias_if(name) raises
\* ValueError exactly when is_alias_if(name) is false, and otherwise returns
\* the non-empty prefix p before the ':' with name = p + ':' + digits.
C18_AliasName ==
    LET alias == \E i \in ColonPlaces(ifname) :
                    /\ i > 1
                    /\ \A j \in ColonPlaces(ifname) : i <= j
                    /\ DigitsAfter(ifname, i)
    IN  /\ Called("is_alias_if") => ret["is_alias_if"] = alias
        /\ Called("phy_name_from_alias_if") =>
              LET r == ret["phy_name_from_alias_if"]
              IN  /\ ~alias => r = Raised("ValueError")
                  /\ alias =>
                        /\ r.raised = "none"
                        /\ Len(r.value) > 0
                        /\ \E digits \in {SubSeq(ifname, k, Len(ifname)) : k \in 2..Len(ifname)} :
                              /\ isdigit(digits)
                              /\ ifname = r.value \o <<":">> \o digits

\* eth0:1 is an alias of eth0
C18_Witness ==
    /\ Called("is_alias_if")
    /\ Called("phy_name_from_alias_if")
    /\ ifname = ETH0 \o <<":", "1">>
    /\ ret["is_alias_if"]
    /\ ret["phy_name_from_alias_if"] = Value(ETH0)


---------------------------------------------------------------------------
(* Properties of the registry of backends *)

\* a compatible DBAPI module: apilevel 2.x at or above 2.0, paramstyle
\* pyformat, format or qmark, threadsafety at least 1
CompatibleModule(m) ==
    /\ m.has = AllAttributes
    /\ m.apilevel \in {<<"2", ".", "0">>, <<"2", ".", "1">>}
    /\ m.paramstyle \in {"pyformat", "format", "qmark"}
    /\ m.threadsafety >= 1

\* C19: register_uri_backend adds the scheme to the registry only for a
\* compatible module; for every other module, a module that lacks apilevel,
\* paramstyle or threadsafety included, it raises NotImplementedError and
\* leaves the registry as it was, so that connect_by_uri and c14n_uri for a
\* scheme that is not registered raise NotImplementedError.
C19_Original ==
    /\ sqlLast.fn = "register_uri_backend" =>
          IF CompatibleModule(sqlLast.module)
          THEN /\ sqlLast.raised = "none"
               /\ sqlLast.scheme \in DOMAIN uri_create_methods
               /\ uri_create_methods[sqlLast.scheme].module = sqlLast.module
          ELSE /\ sqlLast.raised = "NotImplementedError"
               /\ uri_create_methods = sqlLast.before
    /\ \A sch \in DOMAIN uri_create_methods :
          CompatibleModule(uri_create_methods[sch].module)
    /\ (sqlLast.fn \in {"connect_by_uri", "c14n_uri"}
            /\ sqlLast.scheme \notin DOMAIN uri_create_methods) =>
          sqlLast.raised = "NotImplementedError"

---------------------------------------------------------------------------
(* Properties of the TokenRenewer *)

\* stop() has set the event and waits in join
Joining == tpc.caller = "stop_join"

\* the renewer thread is between two renewals
BetweenRenewals == tpc.renewer \in {"wait", "check"}

\* C20: once stop() has returned, no token is asked of the auth client and no
\* callback is notified any more; while stop() waits in join, a renewer
\* thread that is between two renewals begins no other one; and stop()
\* returns whenever the renewer thread is scheduled and the auth client
\* answers, without the timeout of the wait ever elapsing.
C20_StopEndsRenewals ==
    /\ [][stop_returned => (created' = created /\ notified' = notified)]_vars
    /\ [][(Joining /\ BetweenRenewals) =>
             tpc'.renewer \in {"wait", "check", "finished"}]_vars
    /\ (Joining ~> stop_returned)

\* stop() has returned after the renewer thread had renewed the token, had
\* notified a callback and was to wait for 0.8 times the expiration
C20_Witness ==
    /\ stop_returned
    /\ tcall = TokenCall("stop", "none")
    /\ created >= 2
    /\ \E k \in DOMAIN notified : notified[k].token_id >= 2
    /\ wait_timeout = renew_time(TRUE, DEFAULT_EXPIRATION)
    /\ tpc.renewer = "finished"

\* the tokens a callback has been notified with, in order
NotifiedWith(callback) ==
    SelectSeq(notified, LAMBDA n : n.callback = callback)

\* start() and every call of subscribe_to_token_change have returned, and the
\* only token asked for so far, the one of start(), has been obtained
BothReturned ==
    /\ tpc.caller = "idle"
    /\ tpc.subscriber = "idle"
    /\ _thread = "started"
    /\ created = 1
    /\ _renew_time = renew_time(TRUE, DEFAULT_EXPIRATION)

\* C21: whatever the interleaving of subscribe_to_token_change on one thread
\* with start() on another, a callback whose subscription returned is in
\* _callbacks, and once both calls have returned after a successful initial
\* renewal every callback of _callbacks has been notified with that token
\* and its last notification is not None.
C21_Original ==
    /\ \A t \in {"caller", "subscriber"} :
          tpc[t] = "subscribe_notify" =>
             \E k \in DOMAIN _callbacks : _callbacks[k] = tloc[t].callback
    /\ BothReturned =>
          \A k \in DOMAIN _callbacks :
             /\ \E n \in DOMAIN NotifiedWith(_callbacks[k]) :
                    NotifiedWith(_callbacks[k])[n].token_id = 1
             /\ NotifiedWith(_callbacks[k])
                    [Len(NotifiedWith(_callbacks[k]))].token_id # 0

\* the callbacks notified with the token of request n, in order
NotifiedOf(n) ==
    LET of_n == SelectSeq(notified, LAMBDA e : e.token_id = n)
    IN  [k \in DOMAIN of_n |-> of_n[k].callback]

\* thread t is in the renewal attempt of request n
Attempting(t, n) ==
    /\ tpc[t] \in {"await", "notify_all"}
    /\ tloc[t].token_id = n

\* the notifications of every attempt: none while the auth client has not
\* answered, the callbacks before position i while _notify_all runs, and
\* none or all of _callbacks, in the order of _callbacks, afterwards
C22_Notifications ==
    \A n \in 1..created :
       IF \E t \in DOMAIN tpc : Attempting(t, n)
       THEN \A t \in DOMAIN tpc : Attempting(t, n) =>
               IF tpc[t] = "await"
               THEN NotifiedOf(n) = <<>>
               ELSE NotifiedOf(n) = SubSeq(_callbacks, 1, tloc[t].i - 1)
       ELSE NotifiedOf(n) \in {<<>>, _callbacks}

\* the step that ends thread t's wait for the auth client: a failure leaves
\* the notifications alone, sets the delay to 20 seconds and ends the
\* attempt; a success sets the delay to 0.8 times the expiration and starts
\* the notifications
C22_Answer(t) ==
    (tpc[t] = "await" /\ tpc'[t] # "await") =>
       \/ /\ _renew_time' = 20
          /\ notified' = notified
          /\ tpc'[t] = after_renew_token(t)
       \/ /\ _renew_time' = (8 * DEFAULT_EXPIRATION) \div 10
          /\ tpc'[t] = "notify_all"

\* the step that ends an attempt of thread t: start() goes on to set
\* _started, and the renewer thread waits again, for the delay the attempt
\* has set
C22_AttemptEnds(t) ==
    (tpc[t] \in {"await", "notify_all"}
        /\ tpc'[t] \notin {"await", "notify_all"}) =>
       /\ tpc'[t] = after_renew_token(t)
       /\ t = "renewer" => wait_timeout' = _renew_time'
       /\ tpc[t] = "notify_all" =>
             /\ NotifiedOf(tloc[t].token_id) = _callbacks
             /\ _renew_time' = (8 * DEFAULT_EXPIRATION) \div 10

\* an attempt that is over gets no notification any more
C22_Over ==
    \A n \in 1..created :
       (~ \E t \in DOMAIN tpc : Attempting(t, n)) =>
          SelectSeq(notified', LAMBDA e : e.token_id = n)
             = SelectSeq(notified, LAMBDA e : e.token_id = n)

\* a call of start() that has begun its renewal ends only by returning, with
\* the thread started and waiting
C22_StartReturns ==
    tpc.caller \in {"renew", "await", "notify_all", "start_set",
                    "start_thread", "start_run"} =>
       \/ tcall' = tcall /\ tpc'.caller # "idle"
       \/ /\ tcall' = TokenCall("start", "none")
          /\ _thread' = "started"
          /\ tpc'.renewer = "wait"
          /\ wait_timeout' = _renew_time

\* C22: every renewal attempt ends in one of two ways and the renewer thread
\* goes on in both: when the creation of the token raises, no callback is
\* notified for the attempt and the next wait is of 20 seconds; when it
\* succeeds, every callback of _callbacks is notified once with the new
\* token, in the order of subscription, and the next wait is of 0.8 times
\* the expiration; the renewer thread returns only once stop() has set the
\* event; start() whose renewal failed does not raise and starts the thread.
C22_RenewalOutcomes ==
    /\ [](C22_Notifications /\ (tpc.renewer = "finished" => _stopped))
    /\ [][/\ \A t \in DOMAIN tpc : C22_Answer(t) /\ C22_AttemptEnds(t)
          /\ C22_Over
          /\ C22_StartReturns]_vars

\* start() has returned and the thread runs although the initial renewal
\* failed; the renewer thread has since renewed the token, notified the two
\* subscribed callbacks in order and waits for 0.8 times the expiration
C22_Witness ==
    /\ tcall = TokenCall("start", "none")
    /\ created = 2
    /\ Len(_callbacks) = 2
    /\ NotifiedOf(1) = <<>>
    /\ NotifiedOf(2) = _callbacks
    /\ tpc.renewer = "wait"
    /\ wait_timeout = 17280

\* a callback raised when it was notified with the token of request n
RaisedIn(n) ==
    \E k \in DOMAIN notified : notified[k].token_id = n /\ notified[k].raised

\* C23: an exception raised by a callback goes no further: in a renewal
\* where a callback raised, the callbacks are notified with the same token
\* up to the last one of _callbacks, the delay is the one of a successful
\* renewal, the renewer thread returns only once stop() has set the event,
\* and no call of subscribe_to_token_change or of start() raises what the
\* callback raised.
C23_Contained ==
    /\ \A n \in 1..created :
          RaisedIn(n) =>
             IF \E t \in DOMAIN tpc : Attempting(t, n)
             THEN \A t \in DOMAIN tpc : Attempting(t, n) =>
                     /\ tpc[t] = "notify_all"
                     /\ NotifiedOf(n) = SubSeq(_callbacks, 1, tloc[t].i - 1)
                     /\ _renew_time = (8 * DEFAULT_EXPIRATION) \div 10
             ELSE /\ NotifiedOf(n) = _callbacks
                  /\ n = created =>
                        _renew_time = (8 * DEFAULT_EXPIRATION) \div 10
    /\ tpc.renewer = "finished" => _stopped
    /\ tcall.raised \in {"none", "Exception", "AttributeError"}
    /\ tcall.raised = "Exception" => _started
    /\ tcall.raised = "AttributeError" => tcall.fn = "stop"

\* the first of two callbacks raises, the second one returns: subscribing
\* them and start() have returned, and in start()'s renewal and in the
\* renewer thread's both were notified; the thread waits for 0.8 times the
\* expiration
C23_Witness ==
    /\ Len(_callbacks) = 2
    /\ _callbacks[1] \in RaisingCallbacks
    /\ _callbacks[2] \notin RaisingCallbacks
    /\ RaisedIn(0) /\ RaisedIn(1) /\ RaisedIn(2)
    /\ NotifiedOf(1) = _callbacks
    /\ NotifiedOf(2) = _callbacks
    /\ _started
    /\ tpc.renewer = "wait"
    /\ ~ _stopped
    /\ wait_timeout = (8 * DEFAULT_EXPIRATION) \div 10

---------------------------------------------------------------------------
(* Properties of the cursor operations *)

\* the calls of the raw cursor's method that the operation has made
DbapiCalls ==
    SelectSeq(curcall.log, LAMBDA e : e.ev = dbapi2_method(curcall.fn))

\* the reconnects the operation has made
Reconnects == SelectSeq(curcall.log, LAMBDA e : e.ev = "reconnect")

\* the operation is over and had called the raw cursor
OperationOver == curcall.at = "idle" /\ Len(DbapiCalls) > 0

\* C24 as it is stated: an operation calls the raw cursor's method at most
\* twice; when the first call raises, the connection is reconnected once, a
\* fresh raw cursor replaces the old one and the call is made once more,
\* whose exception, if any, goes to the caller; when the first call
\* returns, nothing reconnects.
C24_Original ==
    /\ Len(DbapiCalls) <= 2
    /\ Len(Reconnects) <= 1
    /\ OperationOver =>
          IF DbapiCalls[1].raised = "none"
          THEN /\ Len(DbapiCalls) = 1
               /\ Len(Reconnects) = 0
               /\ curcall.raised = "none"
          ELSE /\ Len(Reconnects) = 1
               /\ Len(DbapiCalls) = 2
               /\ DbapiCalls[2].on # DbapiCalls[1].on
               /\ DbapiCalls[2].on = cur.dbapi2_cursor
               /\ curcall.raised = DbapiCalls[2].raised

\* C24, amended: an operation calls the raw cursor's method at most twice and
\* reconnects at most once; when the first call returns, nothing reconnects;
\* when it raises, the connection is reconnected once, and if the reconnect
\* or the request of a raw cursor raises, that exception goes to the caller,
\* the old raw cursor stays and the call is not made again; otherwise the
\* fresh raw cursor replaces the old one and the call is made once more,
\* whose exception, if any, goes to the caller.
C24_RetryOnce ==
    /\ Len(DbapiCalls) <= 2
    /\ Len(Reconnects) <= 1
    /\ OperationOver =>
          LET log == curcall.log
          IN  /\ log[1] = DbapiCalls[1]
              /\ IF log[1].raised = "none"
                 THEN Len(log) = 1 /\ curcall.raised = "none"
                 ELSE /\ Len(log) >= 2
                      /\ log[2].ev = "reconnect"
                      /\ IF log[2].raised # "none"
                         THEN /\ Len(log) = 2
                              /\ curcall.raised = log[2].raised
                              /\ cur.dbapi2_cursor = log[1].on
                         ELSE /\ Len(log) >= 3
                              /\ log[3].ev = "cursor"
                              /\ IF log[3].raised # "none"
                                 THEN /\ Len(log) = 3
                                      /\ curcall.raised = log[3].raised
                                      /\ cur.dbapi2_cursor = log[1].on
                                 ELSE /\ Len(log) = 4
                                      /\ log[4] = DbapiCalls[2]
                                      /\ log[4].on = cur.dbapi2_cursor
                                      /\ log[4].on # log[1].on
                                      /\ curcall.raised = log[4].raised

\* querymany has raised InterfaceError to its caller: executemany raised
\* OperationalError, the connection was reconnected, and executemany on the
\* fresh raw cursor raised InterfaceError
C24_Witness ==
    /\ curcall.fn = "querymany"
    /\ curcall.at = "idle"
    /\ Len(curcall.log) = 4
    /\ curcall.log[1] = Event("executemany", 1, "OperationalError")
    /\ curcall.log[2] = Event("reconnect", 1, "none")
    /\ curcall.log[4] = Event("executemany", 2, "InterfaceError")
    /\ curcall.raised = "InterfaceError"
    /\ cur.dbapi2_cursor = 2

=============================================================================
